---------------------------- MODULE Spec2Model ----------------------------
(***************************************************************************)
(* The audit event recorder of the SMS backend (utils/auditLogger.js) and  *)
(* the admin endpoints over the audit_log table (routes/audit_log_api.js). *)
(*                                                                         *)
(* A JavaScript string is a sequence of one-character strings, so that     *)
(* includes, toLowerCase, split, join and template literals are computed   *)
(* character by character.  null and undefined are the one-element         *)
(* sequences NULL and UNDEFINED, whose element is not a character.         *)
(* Times are whole hours: hour of day = t % 24, one day = 24.              *)
(***************************************************************************)
EXTENDS Integers, Sequences, FiniteSets, TLC

(***************************************************************************)
(* JavaScript values and operators                                         *)
(***************************************************************************)
NULL == <<"null">>

UNDEFINED == <<"undefined">>

\* the operand of a || b, a ? b : c and if (a) counts as false
Falsy(v) == v \in {NULL, UNDEFINED, <<>>}

\* a || b
Or(a, b) == IF Falsy(a) THEN b ELSE a

\* `${v}` in a template literal
ToText(v) == IF v = NULL THEN <<"n","u","l","l">> ELSE IF v = UNDEFINED THEN <<"u","n","d","e","f","i","n","e","d">> ELSE v

\* node-postgres binds undefined as NULL
ToNull(v) == IF v = UNDEFINED THEN NULL ELSE v

UPPER == <<"A","B","C","D","E","F","G","H","I","J","K","L","M","N","O","P","Q","R","S","T","U","V","W","X","Y","Z">>

LOWER == <<"a","b","c","d","e","f","g","h","i","j","k","l","m","n","o","p","q","r","s","t","u","v","w","x","y","z">>

toLowerCase(s) ==
  [i \in 1..Len(s) |->
     IF \E k \in 1..26 : UPPER[k] = s[i]
     THEN LOWER[CHOOSE k \in 1..26 : UPPER[k] = s[i]]
     ELSE s[i]]

\* String.prototype.includes
includes(s, sub) ==
  \E i \in 0..(Len(s) - Len(sub)) : \A j \in 1..Len(sub) : s[i + j] = sub[j]

\* s.split(',')[0]
splitFirst(s) ==
  IF \E i \in 1..Len(s) : s[i] = ","
  THEN SubSeq(s, 1, (CHOOSE i \in 1..Len(s) : s[i] = "," /\ \A k \in 1..(i - 1) : s[k] # ",") - 1)
  ELSE s

\* String.prototype.trim (blanks only)
trim(s) ==
  IF \A i \in 1..Len(s) : s[i] = " "
  THEN <<>>
  ELSE LET a == CHOOSE i \in 1..Len(s) : s[i] # " " /\ \A k \in 1..(i - 1) : s[k] = " "
           b == CHOOSE i \in 1..Len(s) : s[i] # " " /\ \A k \in (i + 1)..Len(s) : s[k] = " "
       IN  SubSeq(s, a, b)

RECURSIVE join(_, _)
\* Array.prototype.join: null and undefined elements give the empty string
join(items, sep) ==
  IF Len(items) = 0 THEN <<>>
  ELSE LET h == IF Head(items) \in {NULL, UNDEFINED} THEN <<>> ELSE Head(items)
       IN  IF Len(items) = 1 THEN h ELSE h \o sep \o join(Tail(items), sep)

Min(a, b) == IF a < b THEN a ELSE b

Max(a, b) == IF a > b THEN a ELSE b

DIGITS == <<"0","1","2","3","4","5","6","7","8","9">>

RECURSIVE NumToString(_)
\* String(n) of an integer
NumToString(n) ==
  IF n < 0 THEN <<"-">> \o NumToString(0 - n)
  ELSE IF n < 10 THEN <<DIGITS[n + 1]>>
  ELSE NumToString(n \div 10) \o <<DIGITS[(n % 10) + 1]>>

(***************************************************************************)
(* JSON.stringify of the additional_data object.  A value is               *)
(* [t, s, n, kv]: t is "str" (s), "num" (n), "nan", "null", "undef" or     *)
(* "obj" (kv, the sequence of <<key, value>> in insertion order).          *)
(***************************************************************************)
JStr(s) == [t |-> "str", s |-> s, n |-> 0, kv |-> <<>>]

JNum(n) == [t |-> "num", s |-> <<>>, n |-> n, kv |-> <<>>]

JNaN == [t |-> "nan", s |-> <<>>, n |-> 0, kv |-> <<>>]

JUndef == [t |-> "undef", s |-> <<>>, n |-> 0, kv |-> <<>>]

JObj(kv) == [t |-> "obj", s |-> <<>>, n |-> 0, kv |-> kv]

\* a string value or undefined, as a property of an object literal
JOf(v) == IF v = UNDEFINED THEN JUndef ELSE IF v = NULL THEN [JUndef EXCEPT !.t = "null"] ELSE JStr(v)

JFalsy(v) ==
  \/ v.t \in {"undef", "null", "nan"}
  \/ v.t = "str" /\ v.s = <<>>
  \/ v.t = "num" /\ v.n = 0

RECURSIVE JSONQuoteBody(_)
JSONQuoteBody(s) ==
  IF s = <<>> THEN <<>>
  ELSE (IF Head(s) \in {"\"", "\\"} THEN <<"\\", Head(s)>> ELSE <<Head(s)>>) \o JSONQuoteBody(Tail(s))

JSONQuote(s) == <<"\"">> \o JSONQuoteBody(s) \o <<"\"">>

RECURSIVE JSONStringify(_)
\* undefined properties are left out, NaN is written null
JSONStringify(v) ==
  CASE v.t = "str" -> JSONQuote(v.s)
    [] v.t = "num" -> NumToString(v.n)
    [] v.t \in {"nan", "null"} -> <<"n","u","l","l">>
    [] v.t = "obj" ->
         LET kept == SelectSeq(v.kv, LAMBDA p : p[2].t # "undef")
             member(p) == JSONQuote(p[1]) \o <<":">> \o JSONStringify(p[2])
         IN  <<"{">> \o join([i \in 1..Len(kept) |-> member(kept[i])], <<",">>) \o <<"}">>
    [] OTHER -> UNDEFINED

(***************************************************************************)
(* utils/auditLogger.js                                                    *)
(***************************************************************************)
EVENT_TYPES ==
  [LOGIN_SUCCESS |-> <<"L","O","G","I","N","_","S","U","C","C","E","S","S">>,
   LOGIN_FAILED |-> <<"L","O","G","I","N","_","F","A","I","L","E","D">>,
   LOGIN_LOCKED |-> <<"L","O","G","I","N","_","L","O","C","K","E","D">>,
   LOGOUT |-> <<"L","O","G","O","U","T">>,
   SUSPICIOUS_ACTIVITY |-> <<"S","U","S","P","I","C","I","O","U","S","_","A","C","T","I","V","I","T","Y">>]

EVENT_CATEGORIES ==
  [AUTH |-> <<"A","U","T","H">>, USER_MGMT |-> <<"U","S","E","R","_","M","G","M","T">>,
   DATA_CHANGE |-> <<"D","A","T","A","_","C","H","A","N","G","E">>, SYSTEM |-> <<"S","Y","S","T","E","M">>]

RISK_FACTORS ==
  [FAILED_LOGIN |-> 10, MULTIPLE_FAILURES |-> 20, UNUSUAL_IP |-> 15,
   UNUSUAL_HOURS |-> 5, ADMIN_ACCESS |-> 5, SUSPICIOUS_USER_AGENT |-> 10]

\* os.hostname() of the server
HOSTNAME == <<"s","m","s","-","n","o","d","e","-","1">>

\* process.env.APP_VERSION (not set)
APP_VERSION == UNDEFINED

\* hours in a day: the clock counts whole hours
Day == 24

\* new Date().getHours() when the clock reads t
getHours(t) == t % Day

\* req === null: no request object was passed
NoReq == [null |-> TRUE]

extractClientInfo(req) ==
  [ip_address |->
     Or(req.ip,
     Or(req.connection_remoteAddress,
     Or(req.socket_remoteAddress,
     Or(IF req.x_forwarded_for = UNDEFINED THEN UNDEFINED
        ELSE trim(splitFirst(req.x_forwarded_for)),
     Or(req.x_real_ip, <<"u","n","k","n","o","w","n">>))))),
   user_agent |-> Or(req.user_agent, <<"u","n","k","n","o","w","n">>),
   request_method |-> Or(req.method, <<"u","n","k","n","o","w","n">>),
   request_path |-> Or(req.path, Or(req.originalUrl, <<"u","n","k","n","o","w","n">>))]

\* the user agent rule of calculateRiskScore
suspiciousAgent(eventData) ==
  LET userAgent == IF eventData.user_agent \in {NULL, UNDEFINED} THEN <<>>
                   ELSE Or(toLowerCase(eventData.user_agent), <<>>)
  IN  \/ includes(userAgent, <<"b","o","t">>)
      \/ includes(userAgent, <<"c","r","a","w","l","e","r">>)
      \/ includes(userAgent, <<"s","p","i","d","e","r">>)
      \/ userAgent = <<"u","n","k","n","o","w","n">>

\* the admin role rule of calculateRiskScore
adminAccess(eventData) ==
  /\ ~Falsy(eventData.user_roles)
  /\ \/ includes(eventData.user_roles, <<"S","M","S","_","S","U","P","E","R","A","D","M">>)
     \/ includes(eventData.user_roles, <<"G","R","P","_","A","D","M">>)

\* calculateRiskScore returning score * 10, not Math.min(score, 100)
calculateRiskScoreScaled(eventData, hour) ==
  10 * ( (IF eventData.event_type = EVENT_TYPES.LOGIN_FAILED
          THEN RISK_FACTORS.FAILED_LOGIN ELSE 0)
       + (IF adminAccess(eventData) THEN RISK_FACTORS.ADMIN_ACCESS ELSE 0)
       + (IF suspiciousAgent(eventData) THEN RISK_FACTORS.SUSPICIOUS_USER_AGENT ELSE 0)
       + (IF hour < 6 \/ hour > 22 THEN RISK_FACTORS.UNUSUAL_HOURS ELSE 0) )

\* calculateRiskScore with its rules chained by else if: the first rule
\* that applies is the only one counted
calculateRiskScoreElseIf(eventData, hour) ==
  Min(IF eventData.event_type = EVENT_TYPES.LOGIN_FAILED THEN RISK_FACTORS.FAILED_LOGIN
      ELSE IF adminAccess(eventData) THEN RISK_FACTORS.ADMIN_ACCESS
      ELSE IF suspiciousAgent(eventData) THEN RISK_FACTORS.SUSPICIOUS_USER_AGENT
      ELSE IF hour < 6 \/ hour > 22 THEN RISK_FACTORS.UNUSUAL_HOURS
      ELSE 0, 100)

\* calculateRiskScore taking every role that contains 'ADM' for an admin role
calculateRiskScoreAnyAdm(eventData, hour) ==
  Min( (IF eventData.event_type = EVENT_TYPES.LOGIN_FAILED
        THEN RISK_FACTORS.FAILED_LOGIN ELSE 0)
     + (IF ~Falsy(eventData.user_roles) /\ includes(eventData.user_roles, <<"A","D","M">>)
        THEN RISK_FACTORS.ADMIN_ACCESS ELSE 0)
     + (IF suspiciousAgent(eventData) THEN RISK_FACTORS.SUSPICIOUS_USER_AGENT ELSE 0)
     + (IF hour < 6 \/ hour > 22 THEN RISK_FACTORS.UNUSUAL_HOURS ELSE 0), 100)

\* calculateRiskScore with the MULTIPLE_FAILURES factor applied to a failed login
calculateRiskScoreAllFactors(eventData, hour) ==
  LET failed == IF eventData.event_type = EVENT_TYPES.LOGIN_FAILED
                THEN RISK_FACTORS.FAILED_LOGIN + RISK_FACTORS.MULTIPLE_FAILURES ELSE 0
      admin == IF adminAccess(eventData) THEN RISK_FACTORS.ADMIN_ACCESS ELSE 0
      agent == IF suspiciousAgent(eventData) THEN RISK_FACTORS.SUSPICIOUS_USER_AGENT ELSE 0
      hours == IF hour < 6 \/ hour > 22 THEN RISK_FACTORS.UNUSUAL_HOURS ELSE 0
  IN  Min(failed + admin + agent + hours, 100)

calculateRiskScore(eventData, hour) ==
  LET failed == IF eventData.event_type = EVENT_TYPES.LOGIN_FAILED
                THEN RISK_FACTORS.FAILED_LOGIN ELSE 0
      admin == IF adminAccess(eventData) THEN RISK_FACTORS.ADMIN_ACCESS ELSE 0
      agent == IF suspiciousAgent(eventData) THEN RISK_FACTORS.SUSPICIOUS_USER_AGENT ELSE 0
      hours == IF hour < 6 \/ hour > 22 THEN RISK_FACTORS.UNUSUAL_HOURS ELSE 0
  IN  Min(failed + admin + agent + hours, 100)

\* An auditData argument in which nothing is set.  user_roles is
\* [arr, items, str]: an array of strings (arr) or a string / undefined;
\* success is "true", "false" or "absent"; event_timestamp is <<>> or <<t>>.
NoData ==
  [event_type |-> UNDEFINED, event_category |-> UNDEFINED, event_description |-> UNDEFINED,
   userid |-> UNDEFINED, attempted_userid |-> UNDEFINED,
   user_roles |-> [arr |-> FALSE, items |-> <<>>, str |-> UNDEFINED],
   session_id |-> UNDEFINED, success |-> "absent",
   error_code |-> UNDEFINED, error_message |-> UNDEFINED,
   additional_data |-> JUndef,
   server_name |-> UNDEFINED, application_version |-> UNDEFINED,
   event_timestamp |-> <<>>]

RolesArray(items) == [arr |-> TRUE, items |-> items, str |-> UNDEFINED]

RolesString(str) == [arr |-> FALSE, items |-> <<>>, str |-> str]

\* eventData with the word event appended to a description that was given
eventDataAppendsEvent(auditData, req, t) ==
  LET clientInfo == IF req.null
                    THEN [ip_address |-> UNDEFINED, user_agent |-> UNDEFINED,
                          request_method |-> UNDEFINED, request_path |-> UNDEFINED]
                    ELSE extractClientInfo(req)
      e == [event_type |-> auditData.event_type,
            event_category |-> Or(auditData.event_category, EVENT_CATEGORIES.AUTH),
            event_description |->
              ToText(Or(auditData.event_description, auditData.event_type)) \o <<" ","e","v","e","n","t">>,
            userid |-> Or(auditData.userid, NULL),
            attempted_userid |-> Or(auditData.attempted_userid, Or(auditData.userid, NULL)),
            user_roles |-> IF auditData.user_roles.arr
                           THEN join(auditData.user_roles.items, <<",">>)
                           ELSE Or(auditData.user_roles.str, NULL),
            session_id |-> Or(auditData.session_id, NULL),
            ip_address |-> clientInfo.ip_address,
            user_agent |-> clientInfo.user_agent,
            request_method |-> clientInfo.request_method,
            request_path |-> clientInfo.request_path,
            success |-> (auditData.success = "true"),
            error_code |-> Or(auditData.error_code, NULL),
            error_message |-> Or(auditData.error_message, NULL),
            additional_data |-> IF JFalsy(auditData.additional_data) THEN NULL
                                ELSE JSONStringify(auditData.additional_data),
            server_name |-> Or(auditData.server_name, HOSTNAME),
            application_version |->
              Or(auditData.application_version, Or(APP_VERSION, <<"1",".","0",".","0">>)),
            event_timestamp |-> IF auditData.event_timestamp = <<>> THEN t
                                ELSE auditData.event_timestamp[1]]
  IN  e @@ [risk_score |-> calculateRiskScore(e, getHours(t))]

\* the eventData object of logAuditEvent, risk_score included, at clock t
eventData(auditData, req, t) ==
  LET clientInfo == IF req.null
                    THEN [ip_address |-> UNDEFINED, user_agent |-> UNDEFINED,
                          request_method |-> UNDEFINED, request_path |-> UNDEFINED]
                    ELSE extractClientInfo(req)
      e == [event_type |-> auditData.event_type,
            event_category |-> Or(auditData.event_category, EVENT_CATEGORIES.AUTH),
            event_description |->
              Or(auditData.event_description, ToText(auditData.event_type) \o <<" ","e","v","e","n","t">>),
            userid |-> Or(auditData.userid, NULL),
            attempted_userid |-> Or(auditData.attempted_userid, Or(auditData.userid, NULL)),
            user_roles |-> IF auditData.user_roles.arr
                           THEN join(auditData.user_roles.items, <<",">>)
                           ELSE Or(auditData.user_roles.str, NULL),
            session_id |-> Or(auditData.session_id, NULL),
            ip_address |-> clientInfo.ip_address,
            user_agent |-> clientInfo.user_agent,
            request_method |-> clientInfo.request_method,
            request_path |-> clientInfo.request_path,
            success |-> (auditData.success = "true"),
            error_code |-> Or(auditData.error_code, NULL),
            error_message |-> Or(auditData.error_message, NULL),
            additional_data |-> IF JFalsy(auditData.additional_data) THEN NULL
                                ELSE JSONStringify(auditData.additional_data),
            server_name |-> Or(auditData.server_name, HOSTNAME),
            application_version |->
              Or(auditData.application_version, Or(APP_VERSION, <<"1",".","0",".","0">>)),
            event_timestamp |-> IF auditData.event_timestamp = <<>> THEN t
                                ELSE auditData.event_timestamp[1]]
  IN  e @@ [risk_score |-> calculateRiskScore(e, getHours(t))]

\* an eventData object passed to logAuditEvent as its auditData
asAuditData(e) ==
  [event_type |-> e.event_type, event_category |-> e.event_category,
   event_description |-> e.event_description,
   userid |-> e.userid, attempted_userid |-> e.attempted_userid,
   user_roles |-> RolesString(e.user_roles),
   session_id |-> e.session_id, success |-> IF e.success THEN "true" ELSE "false",
   error_code |-> e.error_code, error_message |-> e.error_message,
   additional_data |-> JOf(e.additional_data),
   server_name |-> e.server_name, application_version |-> e.application_version,
   event_timestamp |-> <<e.event_timestamp>>]

\* text the INET column accepts
IsInet(s) == s # <<>> /\ \A i \in 1..Len(s) : s[i] \in {"0","1","2","3","4","5","6","7","8","9",".",":","a","b","c","d","e","f","/"}

\* the row violates a column constraint of public.audit_log
Rejects(e) ==
  \/ e.event_type \in {NULL, UNDEFINED}
  \/ e.event_type \notin {NULL, UNDEFINED} /\ Len(e.event_type) > 50
  \/ Len(e.event_category) > 20
  \/ e.userid # NULL /\ Len(e.userid) > 100
  \/ e.attempted_userid # NULL /\ Len(e.attempted_userid) > 100
  \/ e.user_roles # NULL /\ Len(e.user_roles) > 200
  \/ e.ip_address \notin {NULL, UNDEFINED} /\ ~IsInet(e.ip_address)
  \/ e.request_method \notin {NULL, UNDEFINED} /\ Len(e.request_method) > 10
  \/ e.request_path \notin {NULL, UNDEFINED} /\ Len(e.request_path) > 200

\* Row with the values of userid and attempted_userid bound in each other's place
RowSwapsUsers(e, id, t) ==
  [id |-> id,
   event_type |-> e.event_type, event_category |-> e.event_category,
   event_description |-> e.event_description,
   userid |-> e.attempted_userid, attempted_userid |-> e.userid,
   user_roles |-> e.user_roles, session_id |-> e.session_id,
   ip_address |-> ToNull(e.ip_address), user_agent |-> ToNull(e.user_agent),
   request_method |-> ToNull(e.request_method), request_path |-> ToNull(e.request_path),
   success |-> e.success, error_code |-> e.error_code, error_message |-> e.error_message,
   additional_data |-> e.additional_data, risk_score |-> e.risk_score,
   server_name |-> e.server_name, application_version |-> e.application_version,
   event_timestamp |-> e.event_timestamp, created_at |-> t]

\* the row INSERT ... RETURNING stores for eventData e
Row(e, id, t) ==
  [id |-> id,
   event_type |-> e.event_type, event_category |-> e.event_category,
   event_description |-> e.event_description,
   userid |-> e.userid, attempted_userid |-> e.attempted_userid,
   user_roles |-> e.user_roles, session_id |-> e.session_id,
   ip_address |-> ToNull(e.ip_address), user_agent |-> ToNull(e.user_agent),
   request_method |-> ToNull(e.request_method), request_path |-> ToNull(e.request_path),
   success |-> e.success, error_code |-> e.error_code, error_message |-> e.error_message,
   additional_data |-> e.additional_data, risk_score |-> e.risk_score,
   server_name |-> e.server_name, application_version |-> e.application_version,
   event_timestamp |-> e.event_timestamp, created_at |-> t]

\* the outcome of the INSERT of eventData e, and of the given handling of a
\* failed INSERT
insert(e, t, id, failure) ==
  IF failure = "none"
  THEN [kind |-> "entry",
        entry |-> [id |-> id, timestamp |-> e.event_timestamp] @@ e,
        row |-> Row(e, id, t)]
  ELSE [kind |-> failure]

\* logAuditEvent whose catch block rethrows a row the table rejects
logAuditEventRethrowsRejected(auditData, req, t, id, db) ==
  LET e == eventData(auditData, req, t)
  IN  insert(e, t, id, IF db = "down" THEN "null" ELSE IF Rejects(e) THEN "throw" ELSE "none")

\* logAuditEvent without the try / catch
logAuditEventNoCatch(auditData, req, t, id, db) ==
  LET e == eventData(auditData, req, t)
  IN  insert(e, t, id, IF db = "down" \/ Rejects(e) THEN "throw" ELSE "none")

\* What a call of logAuditEvent does when the clock reads t, the next serial
\* is id and the store is db ("ok" or "down"): kind "entry" (the returned
\* object, and the row inserted), "null" (the catch block), "throw".
logAuditEvent(auditData, req, t, id, db) ==
  LET e == eventData(auditData, req, t)
  IN  insert(e, t, id, IF db = "down" \/ Rejects(e) THEN "null" ELSE "none")

loginSuccess(userid, userRoles, additionalData) ==
  [NoData EXCEPT
     !.event_type = EVENT_TYPES.LOGIN_SUCCESS,
     !.event_category = EVENT_CATEGORIES.AUTH,
     !.event_description = <<"U","s","e","r"," ">> \o ToText(userid) \o <<" ","l","o","g","g","e","d"," ","i","n"," ","s","u","c","c","e","s","s","f","u","l","l","y">>,
     !.userid = userid,
     !.attempted_userid = userid,
     !.user_roles = userRoles,
     !.success = "true",
     !.additional_data = IF additionalData.t = "undef" THEN JObj(<<>>) ELSE additionalData]

\* loginFailed passing the presented identifier as userid too
loginFailedWithUserid(attemptedUserid, reason, additionalData) ==
  [NoData EXCEPT
     !.event_type = EVENT_TYPES.LOGIN_FAILED,
     !.event_category = EVENT_CATEGORIES.AUTH,
     !.event_description =
        <<"F","a","i","l","e","d"," ","l","o","g","i","n"," ","a","t","t","e","m","p","t"," ","f","o","r"," ","u","s","e","r"," ">> \o ToText(attemptedUserid) \o <<":"," ">> \o ToText(reason),
     !.userid = attemptedUserid,
     !.attempted_userid = attemptedUserid,
     !.success = "false",
     !.error_message = reason,
     !.additional_data = IF additionalData.t = "undef" THEN JObj(<<>>) ELSE additionalData]

loginFailed(attemptedUserid, reason, additionalData) ==
  [NoData EXCEPT
     !.event_type = EVENT_TYPES.LOGIN_FAILED,
     !.event_category = EVENT_CATEGORIES.AUTH,
     !.event_description =
        <<"F","a","i","l","e","d"," ","l","o","g","i","n"," ","a","t","t","e","m","p","t"," ","f","o","r"," ","u","s","e","r"," ">> \o ToText(attemptedUserid) \o <<":"," ">> \o ToText(reason),
     !.attempted_userid = attemptedUserid,
     !.success = "false",
     !.error_message = reason,
     !.additional_data = IF additionalData.t = "undef" THEN JObj(<<>>) ELSE additionalData]

logout(userid, userRoles, additionalData) ==
  [NoData EXCEPT
     !.event_type = EVENT_TYPES.LOGOUT,
     !.event_category = EVENT_CATEGORIES.AUTH,
     !.event_description = <<"U","s","e","r"," ">> \o ToText(userid) \o <<" ","l","o","g","g","e","d"," ","o","u","t">>,
     !.userid = userid,
     !.user_roles = userRoles,
     !.success = "true",
     !.additional_data = IF additionalData.t = "undef" THEN JObj(<<>>) ELSE additionalData]

accountLocked(userid, reason, additionalData) ==
  [NoData EXCEPT
     !.event_type = EVENT_TYPES.LOGIN_LOCKED,
     !.event_category = EVENT_CATEGORIES.AUTH,
     !.event_description = <<"A","c","c","o","u","n","t"," ">> \o ToText(userid) \o <<" ","l","o","c","k","e","d",":"," ">> \o ToText(reason),
     !.userid = userid,
     !.attempted_userid = userid,
     !.success = "false",
     !.error_message = reason,
     !.additional_data = IF additionalData.t = "undef" THEN JObj(<<>>) ELSE additionalData]

suspiciousActivity(userid, description, additionalData) ==
  [NoData EXCEPT
     !.event_type = EVENT_TYPES.SUSPICIOUS_ACTIVITY,
     !.event_category = EVENT_CATEGORIES.AUTH,
     !.event_description = description,
     !.userid = userid,
     !.success = "false",
     !.error_message = <<"S","u","s","p","i","c","i","o","u","s"," ","a","c","t","i","v","i","t","y"," ","d","e","t","e","c","t","e","d">>,
     !.additional_data = IF additionalData.t = "undef" THEN JObj(<<>>) ELSE additionalData]

(***************************************************************************)
(* routes/audit_log_api.js: what the handlers compute                      *)
(***************************************************************************)
NaN == [nan |-> TRUE, n |-> 0]

Num(n) == [nan |-> FALSE, n |-> n]

RECURSIVE DigitsValue(_)
DigitsValue(s) ==
  IF s = <<>> THEN 0
  ELSE DigitsValue(SubSeq(s, 1, Len(s) - 1)) * 10
         + ((CHOOSE k \in 1..10 : DIGITS[k] = s[Len(s)]) - 1)

\* parseInt(v) of a number, a string or anything else (radix 10): the
\* leading blanks, an optional sign and the longest run of digits
parseInt(v) ==
  CASE v.t = "num" -> Num(v.n)
    [] v.t = "str" ->
         LET a == IF \A i \in 1..Len(v.s) : v.s[i] = " " THEN <<>>
                  ELSE SubSeq(v.s, CHOOSE i \in 1..Len(v.s) :
                                     v.s[i] # " " /\ \A k \in 1..(i - 1) : v.s[k] = " ", Len(v.s))
             neg == a # <<>> /\ a[1] = "-"
             b == IF a # <<>> /\ a[1] \in {"-", "+"} THEN Tail(a) ELSE a
             isDigit(c) == \E k \in 1..10 : DIGITS[k] = c
             len == IF \A i \in 1..Len(b) : isDigit(b[i]) THEN Len(b)
                    ELSE (CHOOSE i \in 1..Len(b) :
                            ~isDigit(b[i]) /\ \A k \in 1..(i - 1) : isDigit(b[k])) - 1
         IN  IF len = 0 THEN NaN
             ELSE Num((IF neg THEN -1 ELSE 1) * DigitsValue(SubSeq(b, 1, len)))
    [] OTHER -> NaN

\* Math.max(a, x) and Math.min(a, x) of a number a and a parsed x
MathMax(a, x) == IF x.nan THEN NaN ELSE Num(Max(a, x.n))

MathMin(a, x) == IF x.nan THEN NaN ELSE Num(Min(a, x.n))

\* the orders in which ORDER BY may return the rows of S, where
\* before(a, b) says that a sorts strictly ahead of b
OrderBy(S, before(_, _)) ==
  {q \in [1..Cardinality(S) -> S] :
     /\ \A i, j \in 1..Cardinality(S) : i # j => q[i] # q[j]
     /\ \A i, j \in 1..Cardinality(S) : i < j => ~before(q[j], q[i])}

\* LIMIT l OFFSET o
LimitOffset(q, l, o) == SubSeq(q, o + 1, Min(Len(q), o + l))

Project(r, cols) == [c \in cols |-> r[c]]

\* requireAdmin without the test for the super administrator role
requireAdminAnyRole(req) == ~Falsy(req.x_user_role)

\* requireAdmin lets the request through
requireAdmin(req) ==
  ~Falsy(req.x_user_role) /\ includes(req.x_user_role, <<"S","M","S","_","S","U","P","E","R","A","D","M">>)

\* rows for which event_timestamp >= NOW() - INTERVAL 'd days' is true
InWindow(table, d, t) == {r \in table : r.event_timestamp >= t - d * Day}

\* daysNum without the 30 day minimum
daysNumNoMinimum(body) == parseInt(IF body.days.t = "undef" THEN JNum(365) ELSE body.days)

\* POST /cleanup: const { days = 365 } = req.body; Math.max(30, parseInt(days))
daysNum(body) == MathMax(30, parseInt(IF body.days.t = "undef" THEN JNum(365) ELSE body.days))

\* deleteQuery with the comparison turned round
deleteQueryNewer(table, d, t) == {r \in table : r.event_timestamp > t - d * Day}

\* POST /cleanup: the rows the DELETE statement removes when the clock reads t
deleteQuery(table, d, t) == {r \in table : r.event_timestamp < t - d * Day}

\* POST /cleanup: the audit event written before the delete
cleanupInitiated(adminUser, d) ==
  [NoData EXCEPT
     !.event_type = <<"A","U","D","I","T","_","C","L","E","A","N","U","P">>,
     !.event_category = <<"S","Y","S","T","E","M">>,
     !.event_description = <<"A","u","d","i","t"," ","l","o","g"," ","c","l","e","a","n","u","p"," ","i","n","i","t","i","a","t","e","d"," ","b","y"," ">> \o ToText(adminUser),
     !.userid = adminUser,
     !.success = "true",
     !.additional_data = JObj(<< <<<<"r","e","t","e","n","t","i","o","n","_","d","a","y","s">>, IF d.nan THEN JNaN ELSE JNum(d.n)>> >>)]

\* POST /cleanup: the audit event written in the catch block
cleanupFailed(adminUser, message) ==
  [NoData EXCEPT
     !.event_type = <<"A","U","D","I","T","_","C","L","E","A","N","U","P">>,
     !.event_category = <<"S","Y","S","T","E","M">>,
     !.event_description = <<"A","u","d","i","t"," ","l","o","g"," ","c","l","e","a","n","u","p"," ","f","a","i","l","e","d">>,
     !.userid = adminUser,
     !.success = "false",
     !.error_message = message]

\* exportWhere without the event_type condition
exportWhereAnyType(r, q) ==
  /\ q.start_date # <<>> => r.event_timestamp >= q.start_date[1]
  /\ q.end_date # <<>> => r.event_timestamp <= q.end_date[1]

\* GET /export: the WHERE clause; a date parameter is <<>> or <<t>>
exportWhere(r, q) ==
  /\ q.start_date # <<>> => r.event_timestamp >= q.start_date[1]
  /\ q.end_date # <<>> => r.event_timestamp <= q.end_date[1]
  /\ ~Falsy(q.event_type) => r.event_type = q.event_type

\* GET /export: the SELECT list, each column's field and its header text
exportColumns ==
  <<[f |-> "event_timestamp", name |-> <<"e","v","e","n","t","_","t","i","m","e","s","t","a","m","p">>],
    [f |-> "event_type", name |-> <<"e","v","e","n","t","_","t","y","p","e">>],
    [f |-> "userid", name |-> <<"u","s","e","r","i","d">>],
    [f |-> "attempted_userid", name |-> <<"a","t","t","e","m","p","t","e","d","_","u","s","e","r","i","d">>],
    [f |-> "success", name |-> <<"s","u","c","c","e","s","s">>],
    [f |-> "ip_address", name |-> <<"i","p","_","a","d","d","r","e","s","s">>],
    [f |-> "user_agent", name |-> <<"u","s","e","r","_","a","g","e","n","t">>],
    [f |-> "error_message", name |-> <<"e","r","r","o","r","_","m","e","s","s","a","g","e">>],
    [f |-> "risk_score", name |-> <<"r","i","s","k","_","s","c","o","r","e">>],
    [f |-> "event_description", name |-> <<"e","v","e","n","t","_","d","e","s","c","r","i","p","t","i","o","n">>]>>

\* GET /export: the audit event written after the query
exportLogged(adminUser, rowCount, q) ==
  [NoData EXCEPT
     !.event_type = <<"A","U","D","I","T","_","E","X","P","O","R","T">>,
     !.event_category = <<"S","Y","S","T","E","M">>,
     !.event_description = <<"A","u","d","i","t"," ","l","o","g","s"," ","e","x","p","o","r","t","e","d"," ","b","y"," ">> \o ToText(adminUser),
     !.userid = adminUser,
     !.success = "true",
     !.additional_data =
        JObj(<< <<<<"e","x","p","o","r","t","e","d","_","r","e","c","o","r","d","s">>, JNum(rowCount)>>,
                <<<<"f","i","l","t","e","r","s">>,
                  JObj(<< <<<<"s","t","a","r","t","_","d","a","t","e">>, IF q.start_date = <<>> THEN JUndef
                                            ELSE JStr(NumToString(q.start_date[1]))>>,
                          <<<<"e","n","d","_","d","a","t","e">>, IF q.end_date = <<>> THEN JUndef
                                          ELSE JStr(NumToString(q.end_date[1]))>>,
                          <<<<"e","v","e","n","t","_","t","y","p","e">>, JOf(q.event_type)>> >>)>> >>)]

\* String(value) of a column value; c names the column.  A timestamp is
\* written as its number of hours: like the text of a Date, it holds no
\* comma, quote or line break.
String(r, c) ==
  CASE c \in {"event_timestamp", "risk_score"} -> NumToString(r[c])
    [] c = "success" -> IF r[c] THEN <<"t","r","u","e">> ELSE <<"f","a","l","s","e">>
    [] OTHER -> r[c]

RECURSIVE doubleQuotes(_)
\* stringValue.replace(/"/g, '""')
doubleQuotes(s) ==
  IF s = <<>> THEN <<>>
  ELSE (IF Head(s) = "\"" THEN <<"\"", "\"">> ELSE <<Head(s)>>) \o doubleQuotes(Tail(s))

\* csvField without the doubling of embedded quotes
csvFieldNoDoubling(r, c) ==
  IF c \notin {"event_timestamp", "risk_score", "success"} /\ r[c] \in {NULL, UNDEFINED}
  THEN <<>>
  ELSE LET stringValue == String(r, c)
       IN  IF \E i \in 1..Len(stringValue) : stringValue[i] \in {",", "\"", "\n"}
           THEN <<"\"">> \o stringValue \o <<"\"">>
           ELSE stringValue

\* GET /export: one CSV field
csvField(r, c) ==
  IF c \notin {"event_timestamp", "risk_score", "success"} /\ r[c] \in {NULL, UNDEFINED}
  THEN <<>>
  ELSE LET stringValue == String(r, c)
       IN  IF \E i \in 1..Len(stringValue) : stringValue[i] \in {",", "\"", "\n"}
           THEN <<"\"">> \o doubleQuotes(stringValue) \o <<"\"">>
           ELSE stringValue

\* GET /export: csvContent for the rows in the order returned
csvContent(rows) ==
  join(<<join([i \in 1..Len(exportColumns) |-> exportColumns[i].name], <<",">>)>>
         \o [k \in 1..Len(rows) |->
               join([i \in 1..Len(exportColumns) |-> csvField(rows[k], exportColumns[i].f)],
                    <<",">>)],
       <<"\n">>)

RECURSIVE Like(_, _)
\* s LIKE p: % is any run of characters, _ any one character
Like(s, p) ==
  IF p = <<>> THEN s = <<>>
  ELSE IF Head(p) = "%" THEN Like(s, Tail(p)) \/ (s # <<>> /\ Like(Tail(s), p))
  ELSE s # <<>> /\ (Head(p) = "_" \/ Head(p) = Head(s)) /\ Like(Tail(s), Tail(p))

\* column ILIKE '%text%'; NULL matches nothing
ILike(col, text) ==
  col # NULL /\ Like(toLowerCase(col), <<"%">> \o toLowerCase(text) \o <<"%">>)

\* ip_address::text of an INET value
InetText(ip) ==
  IF ip = NULL THEN NULL
  ELSE IF includes(ip, <<"/">>) THEN ip
  ELSE ip \o (IF includes(ip, <<":">>) THEN <<"/","1","2","8">> ELSE <<"/","3","2">>)

\* GET /: a query in which no parameter is given (id is a parameter the
\* handlers do not read)
NoQuery ==
  [page |-> JUndef, limit |-> JUndef, days |-> JUndef, event_type |-> UNDEFINED,
   userid |-> UNDEFINED, success |-> UNDEFINED, start_date |-> <<>>, end_date |-> <<>>,
   ip_address |-> UNDEFINED, risk_score_min |-> UNDEFINED, search |-> UNDEFINED,
   id |-> UNDEFINED]

\* GET /: a bound parameter of the statement is not a number
listBadParam(q) == ~Falsy(q.risk_score_min) /\ parseInt(JStr(q.risk_score_min)).nan

\* GET /: the WHERE clause built from the query parameters
listWhere(r, q) ==
  /\ ~Falsy(q.event_type) => r.event_type = q.event_type
  /\ ~Falsy(q.userid) => ILike(r.userid, q.userid) \/ ILike(r.attempted_userid, q.userid)
  /\ q.success # UNDEFINED => r.success = (q.success = <<"t","r","u","e">>)
  /\ q.start_date # <<>> => r.event_timestamp >= q.start_date[1]
  /\ q.end_date # <<>> => r.event_timestamp <= q.end_date[1]
  /\ ~Falsy(q.ip_address) => ILike(InetText(r.ip_address), q.ip_address)
  /\ ~Falsy(q.risk_score_min) => r.risk_score >= parseInt(JStr(q.risk_score_min)).n
  /\ ~Falsy(q.search) =>
       \/ ILike(r.event_description, q.search)
       \/ ILike(r.userid, q.search)
       \/ ILike(r.attempted_userid, q.search)
       \/ ILike(r.error_message, q.search)
       \/ ILike(r.user_agent, q.search)

listColumns ==
  {"id", "event_type", "event_category", "event_description", "userid", "attempted_userid",
   "user_roles", "session_id", "ip_address", "user_agent", "request_method", "request_path",
   "success", "error_code", "error_message", "risk_score", "server_name",
   "application_version", "event_timestamp", "created_at"}

\* GET /: pageNum, limitNum and offset
pageNum(q) == MathMax(1, parseInt(IF q.page.t = "undef" THEN JNum(1) ELSE q.page))

limitNum(q) ==
  MathMin(500, MathMax(1, parseInt(IF q.limit.t = "undef" THEN JNum(50) ELSE q.limit)))

\* Math.ceil(a / b) for a >= 0, b > 0
ceilDiv(a, b) == (a + b - 1) \div b

\* GET /summary and GET /user/:userid: Math.min(365, Math.max(1, parseInt(days)))
windowDays(q, default) ==
  MathMin(365, MathMax(1, parseInt(IF q.days.t = "undef" THEN JNum(default) ELSE q.days)))

RECURSIVE SumRisk(_)
\* SUM(risk_score) over the rows W
SumRisk(W) ==
  IF W = {} THEN 0 ELSE LET x == CHOOSE y \in W : TRUE IN x.risk_score + SumRisk(W \ {x})

\* GET /summary: the row of summaryQuery over the rows W of the window.
\* AVG is kept as <<sum, count>>; AVG and MAX of no rows are NULL.
summaryRow(W) ==
  [total_events |-> Cardinality(W),
   successful_events |-> Cardinality({r \in W : r.success}),
   failed_events |-> Cardinality({r \in W : ~r.success}),
   successful_logins |-> Cardinality({r \in W : r.event_type = <<"L","O","G","I","N","_","S","U","C","C","E","S","S">>}),
   failed_logins |-> Cardinality({r \in W : r.event_type = <<"L","O","G","I","N","_","F","A","I","L","E","D">>}),
   unique_users |-> Cardinality({r.userid : r \in W} \ {NULL}),
   unique_ips |-> Cardinality({r.ip_address : r \in W} \ {NULL}),
   avg_risk_score |-> IF W = {} THEN NULL
                      ELSE <<SumRisk(W), Cardinality(W)>>,
   max_risk_score |-> IF W = {} THEN NULL
                      ELSE <<CHOOSE m \in {r.risk_score : r \in W} :
                               \A r \in W : r.risk_score <= m>>,
   high_risk_events |-> Cardinality({r \in W : r.risk_score > 50})]

\* GET /summary: event_type, COUNT(*) ... GROUP BY event_type
eventTypesGroups(W) ==
  {[event_type |-> ty, count |-> Cardinality({r \in W : r.event_type = ty})] :
     ty \in {r.event_type : r \in W}}

\* GET /summary: ip_address, COUNT(*) of the failed rows with an address
topFailedIPsGroups(W) ==
  {[ip_address |-> ip,
    failed_attempts |-> Cardinality({r \in W : ~r.success /\ r.ip_address = ip})] :
     ip \in {r.ip_address : r \in {x \in W : ~x.success /\ x.ip_address # NULL}}}

\* GET /summary: the rows of highRiskQuery before ORDER BY and LIMIT
highRiskRows(W) ==
  {Project(r, {"event_type", "attempted_userid", "ip_address", "risk_score", "event_timestamp"}) :
     r \in {x \in W : x.risk_score > 30}}

userColumns ==
  {"id", "event_type", "event_category", "event_description", "userid", "attempted_userid",
   "success", "error_message", "ip_address", "user_agent", "risk_score", "event_timestamp"}

\* GET /user/:userid: the rows of the user in the window
userRows(table, userid, d, t) ==
  {r \in InWindow(table, d, t) : r.userid = userid \/ r.attempted_userid = userid}

\* GET /user/:userid: the row of summaryQuery
userSummaryRow(W) ==
  [total_events |-> Cardinality(W),
   successful_events |-> Cardinality({r \in W : r.success}),
   failed_events |-> Cardinality({r \in W : ~r.success}),
   avg_risk_score |-> IF W = {} THEN NULL
                      ELSE <<SumRisk(W), Cardinality(W)>>,
   last_activity |-> IF W = {} THEN NULL
                     ELSE <<CHOOSE m \in {r.event_timestamp : r \in W} :
                              \A r \in W : r.event_timestamp <= m>>,
   unique_ips |-> Cardinality({r.ip_address : r \in W} \ {NULL})]

(***************************************************************************)
(* Bounds and the inputs the environment draws from                        *)
(***************************************************************************)
\* inserts start only while the id serial is at most MaxId
MaxId == 2

\* the clock starts on day 100 at 10:00
Start == 100 * Day + 10

\* the clock readings of a behaviour of Spec: 10:00 and 02:00 the next night
Times == {Start, Start + 16}

\* the clock readings of a behaviour of SpecAdmin: 10:00 and 31 days later
TimesAdmin == {Start, Start + 31 * Day}

DB == {"ok", "down"}

alice == <<"a","l","i","c","e">>

bob == <<"b","o","b">>

Req(ip, agent, method, path) ==
  [null |-> FALSE, ip |-> ip, connection_remoteAddress |-> ip, socket_remoteAddress |-> ip,
   x_forwarded_for |-> UNDEFINED, x_real_ip |-> UNDEFINED, user_agent |-> agent,
   method |-> method, path |-> path, originalUrl |-> path,
   x_user_role |-> UNDEFINED, x_user_id |-> UNDEFINED]

ReqCurl == Req(<<"2","0","3",".","0",".","1","1","3",".","5">>, <<"c","u","r","l","/","7",".","6","8",".","0">>, <<"P","O","S","T">>, <<"/","l","o","g","i","n">>)

ReqBrowser == Req(<<"1","9","8",".","5","1",".","1","0","0",".","7">>, <<"M","o","z","i","l","l","a","/","5",".","0"," ","F","i","r","e","f","o","x","/","1","2","0",".","0">>, <<"P","O","S","T">>, <<"/","l","o","g","i","n">>)

ReqBot == Req(<<"1","9","2",".","0",".","2",".","4","4">>, <<"G","o","o","g","l","e","b","o","t","/","2",".","1">>, <<"P","O","S","T">>, <<"/","l","o","g","i","n">>)

\* a request that reached the server through a reverse proxy at 10.0.0.2
ReqProxied ==
  [Req(<<"1","0",".","0",".","0",".","2">>, <<"M","o","z","i","l","l","a","/","5",".","0"," ","F","i","r","e","f","o","x","/","1","2","0",".","0">>, <<"P","O","S","T">>, <<"/","l","o","g","i","n">>)
     EXCEPT !.x_forwarded_for = <<"1","9","8",".","5","1",".","1","0","0",".","2","3",","," ","1","0",".","0",".","0",".","2">>, !.x_real_ip = <<"1","9","8",".","5","1",".","1","0","0",".","2","3">>]

\* a request object with no address and no headers
ReqBare == Req(UNDEFINED, UNDEFINED, UNDEFINED, UNDEFINED)

AdminReq(role, id) ==
  [Req(<<"1","0",".","0",".","0",".","9">>, <<"M","o","z","i","l","l","a","/","5",".","0">>, <<"G","E","T">>, <<"/">>) EXCEPT !.x_user_role = role, !.x_user_id = id]

\* the headers x-user-role and x-user-id of the requests to the admin router:
\* a super administrator, a group administrator, and a request without them
AdminReqs ==
  {AdminReq(<<"S","M","S","_","S","U","P","E","R","A","D","M">>, <<"r","o","o","t","1">>), AdminReq(<<"G","R","P","_","A","D","M">>, <<"g","r","p","7">>),
   AdminReq(UNDEFINED, UNDEFINED)}

RoleInputs ==
  {RolesArray(<<<<"A","D","M","I","N">>, <<"U","S","E","R">>>>), RolesArray(<<<<"S","M","S","_","S","U","P","E","R","A","D","M">>, <<"U","S","E","R">>>>)}

\* auditData arguments of direct auditLogger.log calls: an event with only
\* its type, and two backfilled events, 10 and 400 days old at Start
LogBackfill ==
  {[NoData EXCEPT !.event_type = EVENT_TYPES.LOGIN_FAILED, !.attempted_userid = bob,
                  !.event_timestamp = <<Start - 10 * Day>>],
   [NoData EXCEPT !.event_type = <<"S","Y","S","T","E","M","_","S","E","T","U","P">>, !.event_category = EVENT_CATEGORIES.SYSTEM,
                  !.userid = <<"s","y","s","t","e","m">>, !.success = "true",
                  !.user_roles = RolesString(<<"G","R","P","_","A","D","M">>),
                  !.additional_data = JObj(<< <<<<"v","e","r","s","i","o","n">>, JStr(<<"1",".","0",".","0">>)>> >>),
                  !.event_timestamp = <<Start - 400 * Day>>]}

LogInputs == {[NoData EXCEPT !.event_type = <<"S","Y","S","T","E","M","_","S","E","T","U","P">>]} \cup LogBackfill

\* req.body of POST /cleanup
CleanupBodies ==
  {[days |-> JUndef], [days |-> JNum(5)], [days |-> JNum(0)], [days |-> JNum(-7)],
   [days |-> JNum(45)], [days |-> JStr(<<"s","o","o","n">>)]}

ListQueries ==
  {NoQuery, [NoQuery EXCEPT !.page = JStr(<<"2">>), !.limit = JStr(<<"1">>)]}

ExportQueries == {NoQuery, [NoQuery EXCEPT !.event_type = EVENT_TYPES.LOGIN_FAILED]}

\* error.message of a failed statement
ErrDown == <<"C","o","n","n","e","c","t","i","o","n"," ","t","e","r","m","i","n","a","t","e","d"," ","u","n","e","x","p","e","c","t","e","d","l","y">>

ErrInterval == <<"i","n","v","a","l","i","d"," ","i","n","p","u","t"," ","s","y","n","t","a","x"," ","f","o","r"," ","t","y","p","e"," ","i","n","t","e","r","v","a","l">>

(***************************************************************************)
(* State                                                                   *)
(***************************************************************************)
VARIABLES
  audit_log,   \* the rows of public.audit_log
  nextId,      \* the next value of the id serial
  now,         \* the clock, in hours
  ret,         \* what the recorder returned to business code in the last step
  response,    \* the HTTP response of the admin router in the last step
  ledger,      \* history: for each id inserted, the writer, its arguments and the object returned
  last,        \* history: the last operation, its inputs and what it did
  student_master,      \* the rows of public.student_master
  ay_2025_2026,        \* the rows of public.ay_2025_2026, the progress mirror
  fin_master_student,  \* the rows of public.fin_master_student, the finance mirror
  cms_stu_fee_invoice, \* the rows of public.cms_stu_fee_invoice
  cms_stu_scholarship, \* the rows of public.cms_stu_scholarship, oldest write first
  pool,                \* the clients of the shared pool that are checked out
  clients,             \* the connections pool.query runs statements on
  inflight             \* the requests that are between two of their statements

\* the tables of the student routes and the pool they share
studentTables == <<student_master, ay_2025_2026, fin_master_student>>

studentVars == <<studentTables, cms_stu_fee_invoice, cms_stu_scholarship, pool, clients, inflight>>

\* the state of the audit recorder
auditVars == <<audit_log, nextId, now, ret, ledger>>

vars == <<audit_log, nextId, now, ret, response, ledger, last, studentVars>>

\* no student yet, and every client of the pool idle
InitStudent ==
  /\ student_master = {}
  /\ ay_2025_2026 = {}
  /\ fin_master_student = {}
  /\ cms_stu_fee_invoice = {}
  /\ cms_stu_scholarship = <<>>
  /\ pool = 0
  /\ clients = [idle |-> {}, held |-> {}, txn |-> <<>>]
  /\ inflight = <<>>

Init ==
  /\ audit_log = {}
  /\ nextId = 1
  /\ now = Start
  /\ ret = [kind |-> "none"]
  /\ response = [status |-> 0]
  /\ ledger = {}
  /\ last = [op |-> "init"]
  /\ InitStudent

\* the clock advances to a later reading
Tick(times) ==
  /\ \E t \in times : t > now /\ now' = t
  /\ last' = [op |-> "tick"]
  /\ ret' = [kind |-> "none"]
  /\ response' = [status |-> 0]
  /\ UNCHANGED <<audit_log, nextId, ledger>>
  /\ UNCHANGED studentVars

\* the fields of the returned object that ret keeps
retColumns == {"id", "timestamp", "event_type", "success", "risk_score"}

\* Business code calls the recorder through writer via (user and roles are
\* the user id and the roles it passes) and keeps the result.
Record(via, user, roles, auditData, req, db) ==
  \E out \in {logAuditEvent(auditData, req, now, nextId, db)} :
      /\ nextId <= MaxId
      /\ audit_log' = IF out.kind = "entry" THEN audit_log \cup {out.row} ELSE audit_log
      /\ nextId' = IF out.kind = "entry" THEN nextId + 1 ELSE nextId
      /\ ledger' = IF out.kind = "entry"
                   THEN ledger \cup {[id |-> nextId, via |-> via, user |-> user,
                                         roles |-> roles, req |-> req,
                                         entry |-> out.entry]}
                   ELSE ledger
      /\ ret' = IF out.kind = "entry"
                THEN [kind |-> "entry", entry |-> Project(out.entry, retColumns)]
                ELSE [kind |-> out.kind]
      /\ last' = [op |-> via, db |-> db,
                  rejected |-> Rejects(eventData(auditData, req, now))]
      /\ response' = [status |-> 0]
      /\ UNCHANGED now
      /\ UNCHANGED studentVars

Log(inputs) ==
  \E d \in inputs, db \in DB : Record("log", d.userid, d.user_roles, d, NoReq, db)

LoginSuccess ==
  \E roles \in RoleInputs, db \in DB :
    Record("loginSuccess", bob, roles, loginSuccess(bob, roles, JUndef), ReqBrowser, db)

LoginFailed(reqs) ==
  \E r \in reqs, db \in DB :
    Record("loginFailed", alice, RolesString(UNDEFINED),
           loginFailed(alice, <<"I","n","v","a","l","i","d"," ","p","a","s","s","w","o","r","d">>, JUndef), r, db)

Logout ==
  \E db \in DB :
    Record("logout", bob, RolesString(<<"G","R","P","_","A","D","M">>),
           logout(bob, RolesString(<<"G","R","P","_","A","D","M">>), JUndef), NoReq, db)

AccountLocked ==
  \E db \in DB :
    Record("accountLocked", alice, RolesString(UNDEFINED),
           accountLocked(alice, <<"T","o","o"," ","m","a","n","y"," ","f","a","i","l","e","d"," ","a","t","t","e","m","p","t","s">>, JUndef), ReqCurl, db)

SuspiciousActivity ==
  \E db \in DB :
    Record("suspiciousActivity", alice, RolesString(UNDEFINED),
           suspiciousActivity(alice, <<"R","a","p","i","d"," ","l","o","g","i","n"," ","a","t","t","e","m","p","t","s">>,
                              JObj(<< <<<<"a","t","t","e","m","p","t","s">>, JNum(12)>> >>)), ReqCurl, db)

\* requireAdmin answers 403 and the handler does not run
Denied(op, req) ==
  /\ response' = [status |-> 403, error |-> <<"A","d","m","i","n","i","s","t","r","a","t","i","v","e"," ","a","c","c","e","s","s"," ","r","e","q","u","i","r","e","d">>]
  /\ last' = [op |-> op, admitted |-> FALSE, role |-> req.x_user_role]
  /\ ret' = [kind |-> "none"]
  /\ UNCHANGED <<audit_log, nextId, now, ledger>>
  /\ UNCHANGED studentVars

\* the catch block of a handler
ServerError(message) == [status |-> 500, success |-> FALSE, error |-> message]

\* GET /
List(queries) ==
  \E req \in AdminReqs, q \in queries, db \in DB :
    IF ~requireAdmin(req) THEN Denied("list", req)
    ELSE \E p \in {pageNum(q)}, l \in {limitNum(q)},
            matching \in {{r \in audit_log : listWhere(r, q)}} :
         \E ord \in OrderBy(matching, LAMBDA a, b : a.event_timestamp > b.event_timestamp) :
         \E page \in {LimitOffset(ord, l.n, (p.n - 1) * l.n)},
            totalPages \in {IF l.nan THEN 0 ELSE ceilDiv(Cardinality(matching), l.n)} :
           /\ response' =
                IF db = "down" \/ p.nan \/ l.nan \/ listBadParam(q)
                THEN ServerError(<<"F","a","i","l","e","d"," ","t","o"," ","r","e","t","r","i","e","v","e"," ","a","u","d","i","t"," ","l","o","g","s">>)
                ELSE [status |-> 200, success |-> TRUE,
                      data |-> [i \in 1..Len(page) |-> Project(page[i], listColumns)],
                      pagination |->
                        [current_page |-> p.n, per_page |-> l.n,
                         total_records |-> Cardinality(matching), total_pages |-> totalPages,
                         has_next |-> p.n < totalPages, has_previous |-> p.n > 1]]
           /\ last' = [op |-> "list", admitted |-> TRUE, role |-> req.x_user_role, q |-> q, db |-> db]
           /\ ret' = [kind |-> "none"]
           /\ UNCHANGED <<audit_log, nextId, now, ledger>>
           /\ UNCHANGED studentVars

\* GET /summary
Summary ==
  \E req \in AdminReqs, q \in {NoQuery}, db \in DB :
    IF ~requireAdmin(req) THEN Denied("summary", req)
    ELSE \E d \in {windowDays(q, 7)} :
         \E W \in {InWindow(audit_log, d.n, now)} :
         \E types \in OrderBy(eventTypesGroups(W), LAMBDA a, b : a.count > b.count),
            ips \in OrderBy(topFailedIPsGroups(W),
                            LAMBDA a, b : a.failed_attempts > b.failed_attempts),
            risky \in OrderBy(highRiskRows(W),
                              LAMBDA a, b : \/ a.risk_score > b.risk_score
                                            \/ /\ a.risk_score = b.risk_score
                                               /\ a.event_timestamp > b.event_timestamp) :
           /\ response' =
                IF db = "down" \/ d.nan THEN ServerError(<<"F","a","i","l","e","d"," ","t","o"," ","g","e","n","e","r","a","t","e"," ","s","u","m","m","a","r","y">>)
                ELSE [status |-> 200, success |-> TRUE, summary |-> summaryRow(W),
                      event_types |-> types,
                      top_failed_ips |-> LimitOffset(ips, 10, 0),
                      high_risk_events |-> LimitOffset(risky, 10, 0),
                      analysis_period_days |-> d.n]
           /\ last' = [op |-> "summary", admitted |-> TRUE, role |-> req.x_user_role, q |-> q, db |-> db]
           /\ ret' = [kind |-> "none"]
           /\ UNCHANGED <<audit_log, nextId, now, ledger>>
           /\ UNCHANGED studentVars

\* GET /user/:userid
UserHistory ==
  \E req \in AdminReqs, userid \in {alice}, q \in {NoQuery}, db \in DB :
    IF ~requireAdmin(req) THEN Denied("user", req)
    ELSE \E l \in {MathMin(500, MathMax(1, parseInt(IF q.limit.t = "undef" THEN JNum(100)
                                                     ELSE q.limit)))},
            d \in {windowDays(q, 30)} :
         \E W \in {userRows(audit_log, userid, d.n, now)} :
         \E ord \in OrderBy(W, LAMBDA a, b : a.event_timestamp > b.event_timestamp) :
         \E rows \in {LimitOffset(ord, l.n, 0)} :
           /\ response' =
                IF db = "down" \/ d.nan \/ l.nan
                THEN ServerError(<<"F","a","i","l","e","d"," ","t","o"," ","r","e","t","r","i","e","v","e"," ","u","s","e","r"," ","a","u","d","i","t"," ","l","o","g","s">>)
                ELSE [status |-> 200, success |-> TRUE, userid |-> userid,
                      events |-> [i \in 1..Len(rows) |-> Project(rows[i], userColumns)],
                      summary |-> userSummaryRow(W),
                      analysis_period_days |-> d.n]
           /\ last' = [op |-> "user", admitted |-> TRUE, role |-> req.x_user_role, q |-> q, db |-> db]
           /\ ret' = [kind |-> "none"]
           /\ UNCHANGED <<audit_log, nextId, now, ledger>>
           /\ UNCHANGED studentVars

\* the rows a recorder call inserted
Written(a) == IF a.kind = "entry" THEN {a.row} ELSE {}

\* the ledger entry of a recorder call a of an admin handler
Entries(via, req, a) ==
  IF a.kind = "entry"
  THEN {[id |-> a.row.id, via |-> via, user |-> req.x_user_id,
         roles |-> RolesString(UNDEFINED), req |-> req, entry |-> a.entry]}
  ELSE {}

\* POST /cleanup.  dbA is the store as the audit writes find it, dbD as the
\* DELETE finds it.
Cleanup(bodies) ==
  \E req \in AdminReqs, body \in bodies, dbA \in DB, dbD \in DB :
    /\ nextId <= MaxId \/ dbA = "down"
    /\ IF ~requireAdmin(req) THEN Denied("cleanup", req)
       ELSE \E adminUser \in {req.x_user_id}, d \in {daysNum(body)} :
            \E a1 \in {logAuditEvent(cleanupInitiated(adminUser, d), req, now, nextId, dbA)} :
            \E t1 \in {audit_log \cup Written(a1)} :
              IF a1.kind # "throw" /\ ~d.nan /\ dbD = "ok"
              THEN \E deleted \in {deleteQuery(t1, d.n, now)} :
                     /\ audit_log' = t1 \ deleted
                     /\ nextId' = nextId + Cardinality(Written(a1))
                     /\ ledger' = ledger \cup Entries("cleanup", req, a1)
                     /\ response' = [status |-> 200, success |-> TRUE,
                                     deleted_records |-> Cardinality(deleted),
                                     retention_days |-> d.n]
                     /\ last' = [op |-> "cleanup", admitted |-> TRUE, role |-> req.x_user_role, body |-> body,
                                 dbA |-> dbA, dbD |-> dbD, audits |-> <<a1.kind>>,
                                 written |-> {r.id : r \in Written(a1)}]
                     /\ ret' = [kind |-> "none"]
                     /\ UNCHANGED now
                     /\ UNCHANGED studentVars
              ELSE \E message \in {IF a1.kind # "throw" /\ d.nan THEN ErrInterval ELSE ErrDown} :
                   \E a2 \in {logAuditEvent(cleanupFailed(adminUser, message), req, now,
                                            nextId + Cardinality(Written(a1)), dbA)} :
                     /\ audit_log' = t1 \cup Written(a2)
                     /\ nextId' = nextId + Cardinality(Written(a1)) + Cardinality(Written(a2))
                     /\ ledger' = ledger \cup Entries("cleanup", req, a1) \cup Entries("cleanup", req, a2)
                     /\ response' = IF a2.kind = "throw" THEN [status |-> 0]
                                    ELSE ServerError(<<"F","a","i","l","e","d"," ","t","o"," ","c","l","e","a","n","u","p"," ","a","u","d","i","t"," ","l","o","g","s">>)
                     /\ last' = [op |-> "cleanup", admitted |-> TRUE, role |-> req.x_user_role, body |-> body,
                                 dbA |-> dbA, dbD |-> dbD, audits |-> <<a1.kind, a2.kind>>,
                                 written |-> {r.id : r \in Written(a1) \cup Written(a2)}]
                     /\ ret' = [kind |-> "none"]
                     /\ UNCHANGED now
                     /\ UNCHANGED studentVars

\* GET /export.  dbQ is the store as the SELECT finds it, dbA as the audit
\* write finds it.
Export(queries) ==
  \E req \in AdminReqs, q \in queries, dbQ \in DB, dbA \in DB :
    /\ nextId <= MaxId \/ dbA = "down"
    /\ IF ~requireAdmin(req) THEN Denied("export", req)
       ELSE \E matching \in {{r \in audit_log : exportWhere(r, q)}} :
            \E ord \in OrderBy(matching, LAMBDA a, b : a.event_timestamp > b.event_timestamp) :
            \E rows \in {LimitOffset(ord, 10000, 0)} :
            \E a \in {IF dbQ = "ok"
                      THEN logAuditEvent(exportLogged(req.x_user_id, Len(rows), q),
                                         req, now, nextId, dbA)
                      ELSE [kind |-> "none"]} :
              /\ audit_log' = audit_log \cup Written(a)
              /\ nextId' = nextId + Cardinality(Written(a))
              /\ ledger' = ledger \cup Entries("export", req, a)
              /\ response' =
                   IF dbQ = "down" \/ a.kind = "throw"
                   THEN ServerError(<<"F","a","i","l","e","d"," ","t","o"," ","e","x","p","o","r","t"," ","a","u","d","i","t"," ","l","o","g","s">>)
                   ELSE IF rows = <<>>
                   THEN [status |-> 200, success |-> TRUE, csv |-> FALSE,
                         message |-> <<"N","o"," ","r","e","c","o","r","d","s"," ","f","o","u","n","d"," ","f","o","r"," ","e","x","p","o","r","t">>, data |-> <<>>]
                   ELSE [status |-> 200, csv |-> TRUE, body |-> csvContent(rows)]
              /\ last' = [op |-> "export", admitted |-> TRUE, role |-> req.x_user_role, q |-> q, dbQ |-> dbQ,
                          dbA |-> dbA,
                          audits |-> IF dbQ = "ok" THEN <<a.kind>> ELSE <<>>,
                          written |-> {r.id : r \in Written(a)}]
              /\ ret' = [kind |-> "none"]
              /\ UNCHANGED now
              /\ UNCHANGED studentVars

\* The recorder with every writer, and the admin router with one request
\* of each kind.
Next ==
  \/ Tick(Times)
  \/ Log(LogInputs)
  \/ LoginSuccess
  \/ LoginFailed({ReqCurl, ReqBare})
  \/ Logout
  \/ AccountLocked
  \/ SuspiciousActivity
  \/ List({NoQuery})
  \/ Summary
  \/ UserHistory
  \/ Cleanup({[days |-> JUndef]})
  \/ Export({NoQuery})

Spec == Init /\ [][Next]_vars

\* The recorder alone, as business code calls it.
NextRecorder ==
  \/ Tick(Times)
  \/ Log(LogInputs)
  \/ LoginSuccess
  \/ LoginFailed({ReqCurl, ReqBare, ReqBot, ReqProxied})
  \/ Logout
  \/ AccountLocked
  \/ SuspiciousActivity

SpecRecorder == Init /\ [][NextRecorder]_vars

\* The admin router with every request, over a table of backfilled events
\* and failed logins.
NextAdmin ==
  \/ Tick(TimesAdmin)
  \/ Log(LogBackfill)
  \/ LoginFailed({ReqCurl})
  \/ List(ListQueries)
  \/ Summary
  \/ UserHistory
  \/ Cleanup(CleanupBodies)
  \/ Export(ExportQueries)

SpecAdmin == Init /\ [][NextAdmin]_vars


(***************************************************************************)
(* The student routes: student_master and its two mirrors.  A row keeps    *)
(* the columns the mirrors are computed from; the requests carry no        *)
(* sem1..sem10 amounts, which then default to 0.00.                        *)
(***************************************************************************)
\* the three tables as a transaction sees them
Tables(master, progress, finance) ==
  [student_master |-> master, ay_2025_2026 |-> progress, fin_master_student |-> finance]

HasRow(table, stuid) == \E r \in table : r.stuid = stuid

RowOf(table, stuid) == CHOOSE r \in table : r.stuid = stuid

inferTotalSemesters(text) ==
  IF Falsy(text) THEN 8
  ELSE LET t == toLowerCase(text)
       IN  IF includes(t, <<"d","i","p","l","o","m","a">>) THEN 6
           ELSE IF includes(t, <<"b","t","e","c","h">>) \/ includes(t, <<"b",".","e">>) THEN 8
           ELSE IF includes(t, <<"m","t","e","c","h">>) \/ includes(t, <<"m",".","e">>) THEN 4
           ELSE IF includes(t, <<"m","c","a">>) \/ includes(t, <<"m","b","a">>) THEN 4
           ELSE IF includes(t, <<"m","s","c">>) THEN 4
           ELSE IF includes(t, <<"b","s","c">>) \/ includes(t, <<"b","c","a">>) THEN 6
           ELSE 8

\* round2 on whole amounts
round2(n) == Max(0, n)

\* programdescription, else stu_course_id, else null
stream(s) ==
  Or(IF Falsy(s.programdescription) THEN NULL ELSE trim(s.programdescription),
     Or(IF Falsy(s.stu_course_id) THEN NULL ELSE trim(s.stu_course_id), NULL))

\* the override, else semfees * total semesters (sem1..sem10 sum to 0)
computeProgramFeeEffective(body) ==
  IF body.program_fee_override.t # "undef" THEN round2(body.program_fee_override.n)
  ELSE round2(body.semfees * inferTotalSemesters(stream(body)))

\* the student_master row of a request body
studentRow(stuid, body) ==
  [stuid |-> stuid, stuname |-> body.stuname,
   programdescription |-> body.programdescription, stu_course_id |-> body.stu_course_id,
   semfees |-> body.semfees, scholrshipfees |-> body.scholrshipfees,
   balance |-> round2(computeProgramFeeEffective(body) - body.scholrshipfees)]

\* INSERT INTO public.ay_2025_2026 ... SELECT ... ON CONFLICT (stuid) DO NOTHING
ensureProgressRow(T, stuid) ==
  IF HasRow(T.student_master, stuid) /\ ~HasRow(T.ay_2025_2026, stuid)
  THEN LET s == RowOf(T.student_master, stuid)
       IN  [T EXCEPT !.ay_2025_2026 =
              @ \cup {[stuid |-> stuid, stuname |-> s.stuname, department |-> s.stu_course_id]}]
  ELSE T

\* UPDATE public.ay_2025_2026 p SET stuname = s.stuname, department = ...
syncProgressMirror(T, stuid) ==
  IF HasRow(T.student_master, stuid)
  THEN LET s == RowOf(T.student_master, stuid)
       IN  [T EXCEPT !.ay_2025_2026 =
              {IF p.stuid = stuid
               THEN [p EXCEPT !.stuname = s.stuname, !.department = s.stu_course_id]
               ELSE p : p \in @}]
  ELSE T

\* INSERT INTO public.fin_master_student ... ON CONFLICT (stuid) DO UPDATE,
\* for a student that student_master holds
upsertFinanceRow(T, stuid, overrideTotalSemesters, overrideProgramFee) ==
  LET s == RowOf(T.student_master, stuid)
      totalSemesters == IF overrideTotalSemesters.t # "undef" THEN overrideTotalSemesters.n
                        ELSE inferTotalSemesters(stream(s))
      kept == IF overrideTotalSemesters.t # "undef" THEN overrideTotalSemesters.n
              ELSE IF HasRow(T.fin_master_student, stuid)
              THEN RowOf(T.fin_master_student, stuid).total_semesters
              ELSE totalSemesters
      fee == IF overrideProgramFee.t # "undef" THEN Max(0, overrideProgramFee.n)
             ELSE Max(0, s.semfees * kept)
  IN  [T EXCEPT !.fin_master_student =
         {f \in @ : f.stuid # stuid} \cup
         {[stuid |-> stuid, name |-> s.stuname, scholarship_fee |-> s.scholrshipfees,
           total_semesters |-> kept, stream |-> stream(s), program_fee |-> fee]}]

\* ROLLBACK of a transaction that never began: its statements stay
ROLLBACKAutocommit(T, work) == work

\* ROLLBACK: the tables are as they were at BEGIN
ROLLBACK(T, work) == T

\* POST /add.  failAt is the statement the store fails on: 1 BEGIN, 2 the
\* INSERT, 3 ensureProgressRow, 4 upsertFinanceRow, 5 COMMIT, 0 none.
\* releases counts the calls of client.release() on the path taken: the
\* finally block calls pool.release, which a pg Pool does not have.
addStudent(T, stuid, body, failAt) ==
  LET w1 == [T EXCEPT !.student_master = @ \cup {studentRow(stuid, body)}]
      w2 == ensureProgressRow(w1, stuid)
      w3 == upsertFinanceRow(w2, stuid, JUndef, body.program_fee_override)
      failed(work) == [status |-> 500, error |-> <<"F","a","i","l","e","d"," ","t","o"," ","a","d","d"," ","s","t","u","d","e","n","t">>,
                       tables |-> ROLLBACK(T, work),
                       releases |-> 0]
  IN  IF failAt = 1 THEN failed(T)
      ELSE IF failAt = 2 \/ HasRow(T.student_master, stuid) THEN failed(T)
      ELSE IF failAt = 3 THEN failed(w1)
      ELSE IF failAt = 4 THEN failed(w2)
      ELSE IF failAt = 5 THEN failed(w3)
      ELSE [status |-> 201, message |-> <<"S","t","u","d","e","n","t"," ","a","d","d","e","d"," ","s","u","c","c","e","s","s","f","u","l","l","y">>,
            student |-> studentRow(stuid, body), tables |-> w3,
            releases |-> 0]

\* PUT /update/:stuid.  failAt: 1 BEGIN, 2 the UPDATE, 3 ensureProgressRow,
\* 4 syncProgressMirror, 5 upsertFinanceRow, 6 COMMIT, 0 none.
updateStudent(T, stuid, body, failAt) ==
  LET w1 == [T EXCEPT !.student_master =
               {IF s.stuid = stuid THEN studentRow(stuid, body) ELSE s : s \in @}]
      w2 == ensureProgressRow(w1, stuid)
      w3 == syncProgressMirror(w2, stuid)
      w4 == upsertFinanceRow(w3, stuid, JUndef, body.program_fee_override)
      failed(work) == [status |-> 500, error |-> <<"F","a","i","l","e","d"," ","t","o"," ","u","p","d","a","t","e"," ","s","t","u","d","e","n","t">>,
                       tables |-> ROLLBACK(T, work),
                       releases |-> 1]
  IN  IF failAt \in {1, 2} THEN failed(T)
      ELSE IF ~HasRow(T.student_master, stuid)
      THEN [status |-> 404, error |-> <<"S","t","u","d","e","n","t"," ","n","o","t"," ","f","o","u","n","d">>, tables |-> ROLLBACK(T, w1),
      releases |-> 1]
      ELSE IF failAt = 3 THEN failed(w1)
      ELSE IF failAt = 4 THEN failed(w2)
      ELSE IF failAt = 5 THEN failed(w3)
      ELSE IF failAt = 6 THEN failed(w4)
      ELSE [status |-> 200, message |-> <<"S","t","u","d","e","n","t"," ","u","p","d","a","t","e","d"," ","s","u","c","c","e","s","s","f","u","l","l","y">>,
            student |-> studentRow(stuid, body), tables |-> w4,
            releases |-> 1]

\* DELETE /delete/:stuid.  failAt: 1 BEGIN, 2 and 3 the DELETEs of the
\* mirrors, 4 the DELETE of the student, 5 COMMIT, 0 none.
deleteStudent(T, stuid, failAt) ==
  LET w1 == [T EXCEPT !.ay_2025_2026 = {p \in @ : p.stuid # stuid}]
      w2 == [w1 EXCEPT !.fin_master_student = {f \in @ : f.stuid # stuid}]
      w3 == [w2 EXCEPT !.student_master = {s \in @ : s.stuid # stuid}]
      failed(work) == [status |-> 500, error |-> <<"F","a","i","l","e","d"," ","t","o"," ","d","e","l","e","t","e"," ","s","t","u","d","e","n","t">>,
                       tables |-> ROLLBACK(T, work),
                       releases |-> 1]
  IN  IF failAt \in {1, 2} THEN failed(T)
      ELSE IF failAt = 3 THEN failed(w1)
      ELSE IF failAt = 4 THEN failed(w2)
      ELSE IF ~HasRow(T.student_master, stuid)
      THEN [status |-> 404, error |-> <<"S","t","u","d","e","n","t"," ","n","o","t"," ","f","o","u","n","d">>, tables |-> ROLLBACK(T, w2),
      releases |-> 1]
      ELSE IF failAt = 5 THEN failed(w3)
      ELSE [status |-> 200,
            message |-> <<"S","t","u","d","e","n","t"," ","a","n","d"," ","r","e","l","a","t","e","d"," ","r","e","c","o","r","d","s"," ","d","e","l","e","t","e","d"," ","s","u","c","c","e","s","s","f","u","l","l","y">>,
            student |-> RowOf(T.student_master, stuid), tables |-> w3,
            releases |-> 1]

StuIds == {<<"S","T","U","_","0","0","1">>, <<"S","T","U","_","0","0","2">>}

\* req.body of POST /add and PUT /update: a diploma student, the same
\* student renamed and moved to the course default, and a fee override
StudentBody(stuname, programdescription, program_fee_override) ==
  [stuname |-> stuname, programdescription |-> programdescription,
   stu_course_id |-> <<"B","T","E","C","H","_","C","S","E">>, semfees |-> 1000, scholrshipfees |-> 0,
   program_fee_override |-> program_fee_override]

StudentBodies ==
  {StudentBody(<<"A","s","h","a"," ","R","a","o">>, <<"D","i","p","l","o","m","a"," ","i","n"," ","C","i","v","i","l">>, JUndef),
   StudentBody(<<"A","."," ","R","a","o">>, NULL, JUndef),
   StudentBody(<<"A","s","h","a"," ","R","a","o">>, <<"D","i","p","l","o","m","a"," ","i","n"," ","C","i","v","i","l">>, JNum(500))}

\* the clients of a pg Pool made without max (config/db_conn.js)
PoolMax == 10

\* The handler got a client from the pool, answers with out and leaves the
\* tables as out.tables.  pool.connect() waits while every client is checked
\* out; the first client.release() returns the client, a second one throws.
Answer(op, stuid, body, failAt, out) ==
  /\ pool < PoolMax
  /\ pool' = pool + 1 - Min(1, out.releases)
  /\ UNCHANGED <<cms_stu_fee_invoice, cms_stu_scholarship, clients, inflight>>
  /\ student_master' = out.tables.student_master
  /\ ay_2025_2026' = out.tables.ay_2025_2026
  /\ fin_master_student' = out.tables.fin_master_student
  /\ response' = [status |-> out.status]
  /\ last' = [op |-> op, stuid |-> stuid, body |-> body, failAt |-> failAt,
              releases |-> out.releases]
  /\ UNCHANGED auditVars

\* POST /add, PUT /update/:stuid and DELETE /delete/:stuid with the student
\* ids, bodies and failing statements drawn from the given sets
AddStudentOf(ids, bodies, fails) ==
  \E stuid \in ids, body \in bodies, failAt \in fails :
    \E out \in {addStudent(Tables(student_master, ay_2025_2026, fin_master_student),
                           stuid, body, failAt)} :
      Answer("add", stuid, body, failAt, out)

UpdateStudentOf(ids, bodies, fails) ==
  \E stuid \in ids, body \in bodies, failAt \in fails :
    \E out \in {updateStudent(Tables(student_master, ay_2025_2026, fin_master_student),
                              stuid, body, failAt)} :
      Answer("update", stuid, body, failAt, out)

DeleteStudentOf(ids, fails) ==
  \E stuid \in ids, failAt \in fails :
    \E out \in {deleteStudent(Tables(student_master, ay_2025_2026, fin_master_student),
                              stuid, failAt)} :
      Answer("delete", stuid, NULL, failAt, out)

AddStudent == AddStudentOf(StuIds, StudentBodies, 0..5)

UpdateStudent == UpdateStudentOf(StuIds, StudentBodies, 0..6)

DeleteStudent == DeleteStudentOf(StuIds, 0..5)

\* The student routes alone.
NextStudent ==
  \/ AddStudent
  \/ UpdateStudent
  \/ DeleteStudent

SpecStudent == Init /\ [][NextStudent]_vars
(***************************************************************************)
(* The risk scorer alone: Init draws a normalized event and an hour, Score *)
(* applies calculateRiskScore to them.                                     *)
(***************************************************************************)
ScoreTypes == {EVENT_TYPES.LOGIN_FAILED, EVENT_TYPES.LOGIN_SUCCESS, <<"S","Y","S","T","E","M","_","S","E","T","U","P">>}

ScoreRoles ==
  {NULL, <<"U","S","E","R">>, <<"A","D","M","I","N",",","U","S","E","R">>, <<"S","M","S","_","S","U","P","E","R","A","D","M",",","U","S","E","R">>, <<"U","S","E","R",",","G","R","P","_","A","D","M">>}

ScoreAgents ==
  {UNDEFINED, <<"c","u","r","l","/","7",".","6","8",".","0">>, <<"G","o","o","g","l","e","B","o","t","/","2",".","1">>, <<"U","N","K","N","O","W","N">>, <<"u","n","k","n","o","w","n","-","a","g","e","n","t">>,
   <<"w","e","b","-","c","r","a","w","l","e","r">>, <<"S","p","i","d","e","r">>}

InitScore ==
  /\ audit_log = {}
  /\ nextId = 1
  /\ now \in {Start - 10 + h : h \in 0..(Day - 1)}
  /\ ret = [kind |-> "none"]
  /\ response = [status |-> 0]
  /\ ledger = {}
  /\ InitStudent
  /\ \E type \in ScoreTypes, roles \in ScoreRoles, agent \in ScoreAgents,
        userid \in {NULL, alice}, success \in BOOLEAN :
       last = [op |-> "event",
               event |-> [event_type |-> type, user_roles |-> roles, user_agent |-> agent,
                          userid |-> userid, success |-> success]]

Score ==
  /\ last.op = "event"
  /\ ret' = [kind |-> "score", score |-> calculateRiskScore(last.event, getHours(now))]
  /\ last' = [last EXCEPT !.op = "score"]
  /\ UNCHANGED <<audit_log, nextId, now, response, ledger>>
  /\ UNCHANGED studentVars

SpecScore == InitScore /\ [][Score]_vars

(***************************************************************************)
(* Properties                                                              *)
(***************************************************************************)
RecorderOps ==
  {"log", "loginSuccess", "loginFailed", "logout", "accountLocked", "suspiciousActivity"}

\* the ledger entry of row r
Writer(r) == CHOOSE l \in ledger : l.id = r.id

Bit(p) == IF p THEN 1 ELSE 0

\* C1: the recorder never raises to its caller.  A call answers null when
\* the store is down or rejects the row, and otherwise an entry carrying
\* the id of the row it inserted.
LoggerNeverRaises ==
  /\ ret.kind \in {"none", "entry", "null"}
  /\ last.op \in RecorderOps =>
       IF last.db = "down" \/ last.rejected
       THEN ret.kind = "null"
       ELSE /\ ret.kind = "entry"
            /\ ret.entry.id = nextId - 1
            /\ \E r \in audit_log : r.id = ret.entry.id

\* C1: a failed login from a request without an address was rejected by the
\* table (ip_address 'unknown' is no INET value) and the call answered null
NullOnRejectedRow ==
  /\ last.op = "loginFailed"
  /\ last.db = "ok"
  /\ last.rejected
  /\ ret.kind = "null"

\* the outcome of an admitted cleanup, told from the table before it, the
\* request and the store as the DELETE finds it: nothing of the audit write
cleanupOutcome ==
  LET d == daysNum(last'.body)
  IN  IF ~d.nan /\ last'.dbD = "ok"
      THEN /\ response'.status = 200
           /\ audit_log \ audit_log' = deleteQuery(audit_log, d.n, now)
           /\ response'.deleted_records = Cardinality(deleteQuery(audit_log, d.n, now))
      ELSE /\ response'.status = 500
           /\ audit_log \subseteq audit_log'

\* the outcome of an admitted export, told from the table before it, the
\* request and the store as the SELECT finds it: nothing of the audit write
exportOutcome ==
  LET matching == {r \in audit_log : exportWhere(r, last'.q)}
  IN  IF last'.dbQ = "ok"
      THEN /\ response'.status = 200
           /\ IF matching = {} THEN ~response'.csv
              ELSE /\ response'.csv
                   /\ \E ord \in OrderBy(matching,
                                         LAMBDA a, b : a.event_timestamp > b.event_timestamp) :
                        response'.body = csvContent(ord)
      ELSE response'.status = 500

\* C2: the rows a cleanup deletes, the rows an export returns and the HTTP
\* status of both are fixed by the table, the request and the outcome of
\* the DELETE or SELECT statement; whether the audit write succeeded does
\* not enter.
PrimaryOutcomeIgnoresAudit ==
  [][ /\ (last'.op = "cleanup" /\ last'.admitted) => cleanupOutcome
      /\ (last'.op = "export" /\ last'.admitted) => exportOutcome ]_vars

\* C2: the audit write of a cleanup failed, and the cleanup deleted rows
\* and answered 200
CleanupDoneAuditFailed ==
  /\ last.op = "cleanup"
  /\ last.admitted
  /\ last.audits = <<"null">>
  /\ response.status = 200
  /\ response.deleted_records > 0

\* C3: every stored row has a risk_score from 0 to 100
RiskScoreInRange == \A r \in audit_log : r.risk_score \in 0..100

\* C3: rows written by different writers are stored, one with score 0 and
\* one with a positive score
ScoredRowsStored ==
  \E r, s \in audit_log :
    /\ r.risk_score = 0
    /\ s.risk_score > 0
    /\ Writer(r).via # Writer(s).via

aliceAtTwo(r) ==
  /\ Writer(r).via = "loginFailed"
  /\ Writer(r).user = <<"a","l","i","c","e">>
  /\ Writer(r).req.ip = <<"2","0","3",".","0",".","1","1","3",".","5">>
  /\ Writer(r).req.user_agent = <<"c","u","r","l","/","7",".","6","8",".","0">>
  /\ getHours(r.created_at) = 2

\* C5: the failed login of alice from 203.0.113.5 with curl/7.68.0 at hour
\* 2 is stored with success false, attempted_userid alice, userid null and
\* risk score 15.
FailedLoginScenario ==
  \A r \in audit_log :
    aliceAtTwo(r) =>
      /\ r.event_type = <<"L","O","G","I","N","_","F","A","I","L","E","D">>
      /\ r.success = FALSE
      /\ r.attempted_userid = <<"a","l","i","c","e">>
      /\ r.userid = NULL
      /\ r.ip_address = <<"2","0","3",".","0",".","1","1","3",".","5">>
      /\ r.risk_score = 15

\* C5: the failed login of alice at hour 2 is stored
FailedLoginStored == \E r \in audit_log : aliceAtTwo(r)

\* the row r was written by loginSuccess for bob with the given roles from
\* a browser at hour 10
bobAtTen(r, roles) ==
  /\ Writer(r).via = "loginSuccess"
  /\ Writer(r).user = <<"b","o","b">>
  /\ Writer(r).roles = RolesArray(roles)
  /\ Writer(r).req.user_agent = <<"M","o","z","i","l","l","a","/","5",".","0"," ","F","i","r","e","f","o","x","/","1","2","0",".","0">>
  /\ getHours(r.created_at) = 10

\* C6 as stated: the successful login of bob with roles ["ADMIN","USER"] at
\* hour 10 from a browser has risk score 5.
AdminLoginScoresFive ==
  \A r \in audit_log : bobAtTen(r, <<<<"A","D","M","I","N">>, <<"U","S","E","R">>>>) => r.risk_score = 5

\* C6: the successful login of bob with roles ["ADMIN","USER"] at hour 10
\* from a browser has risk score 0, ADMIN being no admin role marker; with
\* roles ["SMS_SUPERADM","USER"] it has risk score 5.
AdminLoginScore ==
  \A r \in audit_log :
    /\ bobAtTen(r, <<<<"A","D","M","I","N">>, <<"U","S","E","R">>>>) => r.success /\ r.risk_score = 0
    /\ bobAtTen(r, <<<<"S","M","S","_","S","U","P","E","R","A","D","M">>, <<"U","S","E","R">>>>) => r.success /\ r.risk_score = 5

\* C6: both logins of bob are stored
AdminLoginsStored ==
  \E r, s \in audit_log :
    /\ bobAtTen(r, <<<<"A","D","M","I","N">>, <<"U","S","E","R">>>>)
    /\ bobAtTen(s, <<<<"S","M","S","_","S","U","P","E","R","A","D","M">>, <<"U","S","E","R">>>>)

\* C7 as stated: no stored row of a failed authentication (category AUTH,
\* success false: failed login, account locked, suspicious activity) has
\* userid populated.
NoSubjectOnFailedAuth ==
  \A r \in audit_log :
    (/\ r.event_category = <<"A","U","T","H">>
     /\ r.success = FALSE
     /\ r.event_type \in {<<"L","O","G","I","N","_","F","A","I","L","E","D">>, <<"L","O","G","I","N","_","L","O","C","K","E","D">>, <<"S","U","S","P","I","C","I","O","U","S","_","A","C","T","I","V","I","T","Y">>})
    => r.userid = NULL

\* C8: the table changes only by the insert of rows with fresh ids and by
\* the delete of a cleanup, which removes rows by age: a row that stays
\* keeps every field value, and with a removed row every row as old is
\* removed.
WriteOnceLedger ==
  [][ /\ \A r \in audit_log' : (\E s \in audit_log : s.id = r.id) => r \in audit_log
      /\ \A r \in audit_log' \ audit_log : r.id >= nextId /\ r.id < nextId'
      /\ audit_log \ audit_log' # {} => last'.op = "cleanup"
      /\ \A r \in audit_log \ audit_log', s \in audit_log :
           s.event_timestamp <= r.event_timestamp => s \notin audit_log' ]_vars

\* C8: a cleanup deleted rows and a row inserted before it is still stored
RowSurvivesCleanup ==
  /\ last.op = "cleanup"
  /\ last.admitted
  /\ response.status = 200
  /\ response.deleted_records > 0
  /\ \E r \in audit_log : r.id \notin last.written

\* the retention the request asks for; 365 days when it names none
requestedDays(body) == IF body.days.t = "num" THEN body.days.n ELSE 365

\* C9: a cleanup deletes no row whose event time is within the last 30
\* days; when it answers 200 it deleted the rows older than max(30,
\* requested) days and reports their number.
RetentionFloor ==
  [][ (last'.op = "cleanup" /\ last'.admitted) =>
        /\ \A r \in audit_log \ audit_log' : r.event_timestamp < now - 30 * Day
        /\ response'.status = 200 =>
             LET cutoff == Max(30, requestedDays(last'.body))
             IN  /\ audit_log \ audit_log' =
                      {r \in audit_log : r.event_timestamp < now - cutoff * Day}
                 /\ response'.deleted_records = Cardinality(audit_log \ audit_log')
                 /\ response'.retention_days = cutoff ]_vars

\* C9: a cleanup asked to keep 5 days deleted rows and kept a row more than
\* 5 and less than 30 days old
FloorKeptRecentRow ==
  /\ last.op = "cleanup"
  /\ last.admitted
  /\ last.body.days = JNum(5)
  /\ response.status = 200
  /\ response.deleted_records > 0
  /\ \E r \in audit_log :
       r.event_timestamp < now - 5 * Day /\ r.event_timestamp > now - 30 * Day

\* C10 as stated: an admitted cleanup writes AUDIT_CLEANUP rows, and the
\* success flag of each is the outcome of the cleanup.
CleanupRecorded ==
  (last.op = "cleanup" /\ last.admitted) =>
    LET rows == {r \in audit_log : r.id \in last.written /\ r.event_type = <<"A","U","D","I","T","_","C","L","E","A","N","U","P">>}
    IN  /\ rows # {}
        /\ \A r \in rows : r.success = (response.status = 200)


(***************************************************************************)
(* The List and Export endpoints with every query parameter, over a table  *)
(* of failed logins, backfilled events and an event whose texts hold       *)
(* commas, quotes and a line break.                                        *)
(***************************************************************************)
\* an event whose description and error text need CSV quoting
LogCsv ==
  {[NoData EXCEPT !.event_type = <<"P","A","S","S","W","O","R","D","_","C","H","A","N","G","E">>,
                  !.userid = bob,
                  !.event_description = <<"C","h","a","n","g","e","d"," ","b","y"," ","\"","a","d","m","i","n","\"",","," ","t","w","i","c","e">>,
                  !.error_message = <<"f","i","r","s","t"," ","l","i","n","e">> \o <<"\n">> \o <<"s","e","c","o","n","d"," ","l","i","n","e">>]}

\* GET /: page and limit as the query string gives them
PageQueries ==
  {NoQuery,
   [NoQuery EXCEPT !.limit = JStr(<<"1","0","0","0">>)],
   [NoQuery EXCEPT !.limit = JStr(<<"0">>), !.page = JStr(<<"0">>)],
   [NoQuery EXCEPT !.limit = JStr(<<"1">>), !.page = JStr(<<"-","3">>)],
   [NoQuery EXCEPT !.limit = JStr(<<"1">>), !.page = JStr(<<"2">>)],
   [NoQuery EXCEPT !.limit = JStr(<<"a","b","c">>)]}

\* GET /: one query for each filter, one with several, one whose text
\* holds a LIKE wildcard
FilterQueries ==
  {[NoQuery EXCEPT !.event_type = EVENT_TYPES.LOGIN_FAILED],
   [NoQuery EXCEPT !.userid = <<"L","I","C">>],
   [NoQuery EXCEPT !.success = <<"t","r","u","e">>],
   [NoQuery EXCEPT !.success = <<"f","a","l","s","e">>, !.limit = JStr(<<"1">>), !.page = JStr(<<"2">>)],
   [NoQuery EXCEPT !.start_date = <<Start>>],
   [NoQuery EXCEPT !.end_date = <<Start>>],
   [NoQuery EXCEPT !.ip_address = <<"1","1","3",".","5">>],
   [NoQuery EXCEPT !.risk_score_min = <<"1","0">>],
   [NoQuery EXCEPT !.search = <<"L","I","N","E">>],
   [NoQuery EXCEPT !.event_type = EVENT_TYPES.LOGIN_FAILED, !.search = <<"a","l","i","c","e">>,
                   !.start_date = <<Start>>],
   [NoQuery EXCEPT !.userid = <<"b","_","b">>]}

\* GET /export: the parameters the handler reads, and two it does not
ExportFilterQueries ==
  {NoQuery,
   [NoQuery EXCEPT !.event_type = EVENT_TYPES.LOGIN_FAILED],
   [NoQuery EXCEPT !.start_date = <<Start>>],
   [NoQuery EXCEPT !.userid = alice],
   [NoQuery EXCEPT !.success = <<"t","r","u","e">>]}

NextQuery ==
  \/ Tick(Times)
  \/ Log(LogBackfill \cup LogCsv)
  \/ LoginFailed({ReqCurl})
  \/ List(PageQueries \cup FilterQueries)
  \/ Export(ExportFilterQueries)

SpecQuery == Init /\ [][NextQuery]_vars

(***************************************************************************)
(* The normalizer alone: Init draws an event type, a request and an hour;  *)
(* Normalize builds eventData from the type, NormalizeAgain builds it from *)
(* that object, at the same or a later hour.                               *)
(***************************************************************************)
NormalizeTypes ==
  {EVENT_TYPES.LOGIN_FAILED, EVENT_TYPES.LOGIN_SUCCESS, EVENT_TYPES.LOGOUT, <<"S","Y","S","T","E","M","_","S","E","T","U","P">>}

NormalizeReqs == {NoReq, ReqCurl, ReqBare}

InitNormalize ==
  /\ audit_log = {}
  /\ nextId = 1
  /\ now \in {Start - 10 + h : h \in 0..(Day - 1)}
  /\ ret = [kind |-> "none"]
  /\ response = [status |-> 0]
  /\ ledger = {}
  /\ InitStudent
  /\ \E type \in NormalizeTypes, req \in NormalizeReqs :
       last = [op |-> "type", event_type |-> type, req |-> req]

Normalize ==
  /\ last.op = "type"
  /\ ret' = [kind |-> "eventData", at |-> now,
             once |-> eventData([NoData EXCEPT !.event_type = last.event_type], last.req, now)]
  /\ last' = [last EXCEPT !.op = "once"]
  /\ UNCHANGED <<audit_log, nextId, now, response, ledger>>
  /\ UNCHANGED studentVars

NormalizeAgain ==
  /\ last.op = "once"
  /\ \E t \in {now, now + 16} :
       /\ now' = t
       /\ ret' = [kind |-> "eventData", at |-> ret.at, once |-> ret.once,
                  twice |-> eventData(asAuditData(ret.once), last.req, t)]
  /\ last' = [last EXCEPT !.op = "twice"]
  /\ UNCHANGED <<audit_log, nextId, response, ledger>>
  /\ UNCHANGED studentVars

NextNormalize ==
  \/ Normalize
  \/ NormalizeAgain

SpecNormalize == InitNormalize /\ [][NextNormalize]_vars

(***************************************************************************)
(* Write, then read back: the recorder and the List endpoint asked for     *)
(* one id.                                                                 *)
(***************************************************************************)
\* GET /?id=1 and GET /?id=2
RoundTripQueries == {[NoQuery EXCEPT !.id = <<"1">>], [NoQuery EXCEPT !.id = <<"2">>]}

NextRoundTrip ==
  \/ Tick(Times)
  \/ Log(LogInputs)
  \/ LoginFailed({ReqCurl, ReqBare})
  \/ List(RoundTripQueries)

SpecRoundTrip == Init /\ [][NextRoundTrip]_vars

(***************************************************************************)
(* The risk scorer at clock readings with minutes: Init draws an event,    *)
(* an hour and a minute of that hour; Score reads the hour of the clock.   *)
(***************************************************************************)
\* the minutes past the hour of the clock readings
Minutes == {0, 30}

InitHours ==
  /\ audit_log = {}
  /\ nextId = 1
  /\ now \in {Start - 10 + h : h \in 0..(Day - 1)}
  /\ ret = [kind |-> "none"]
  /\ response = [status |-> 0]
  /\ ledger = {}
  /\ InitStudent
  /\ \E type \in {EVENT_TYPES.LOGIN_FAILED, EVENT_TYPES.LOGIN_SUCCESS},
        roles \in {NULL, <<"S","M","S","_","S","U","P","E","R","A","D","M",",","U","S","E","R">>},
        agent \in {<<"c","u","r","l","/","7",".","6","8",".","0">>, <<"G","o","o","g","l","e","b","o","t","/","2",".","1">>},
        minute \in Minutes :
       last = [op |-> "event", minute |-> minute,
               event |-> [event_type |-> type, user_roles |-> roles, user_agent |-> agent,
                          userid |-> alice, success |-> FALSE]]

SpecHours == InitHours /\ [][Score]_vars

(***************************************************************************)
(* The finance upsert and the semester settlement of the student routes    *)
(***************************************************************************)
\* POST /finance/upsert.  failAt: 1 BEGIN, 2 upsertFinanceRow, 3 COMMIT,
\* 0 none.  The 400 branch releases the client and returns through the
\* finally block, which releases it again.
financeUpsert(T, body, failAt) ==
  LET n == parseInt(body.total_semesters)
      override == IF body.total_semesters.t = "undef" THEN JUndef
                  ELSE JNum(Max(1, Min(12, IF n.nan THEN 0 ELSE n.n)))
      w1 == upsertFinanceRow(T, body.stuid, override, body.program_fee_override)
      failed(work) == [status |-> 500, error |-> <<"F","a","i","l","e","d"," ","t","o"," ","u","p","s","e","r","t"," ","f","i","n","a","n","c","e"," ","r","o","w">>,
                       tables |-> ROLLBACK(T, work), releases |-> 1]
  IN  IF Falsy(body.stuid)
      THEN [status |-> 400, error |-> <<"s","t","u","i","d"," ","i","s"," ","r","e","q","u","i","r","e","d">>, tables |-> T, releases |-> 2]
      ELSE IF failAt = 1 THEN failed(T)
      ELSE IF failAt = 2 \/ ~HasRow(T.student_master, body.stuid) THEN failed(T)
      ELSE IF failAt = 3 THEN failed(w1)
      ELSE [status |-> 200, message |-> <<"F","i","n","a","n","c","e"," ","r","o","w"," ","u","p","s","e","r","t","e","d"," ","s","u","c","c","e","s","s","f","u","l","l","y">>,
            tables |-> w1, releases |-> 1]

\* POST /settle-semester.  failAt: 1 BEGIN, 2 SELECT ... FOR UPDATE, 3 the
\* UPDATE, 4 ensureProgressRow, 5 syncProgressMirror, 6 upsertFinanceRow,
\* 7 COMMIT, 0 none.  amount is a number or absent; sem1..sem10 are 0.00 in
\* every row, so the amount read from the row is 0.  Each early return
\* releases the client and returns through the finally block.
settleSemester(T, body, failAt) ==
  LET semN == parseInt(body.semester)
      currentSemAmt == 0
      useAmt == Max(0, IF body.amount.t = "undef" THEN currentSemAmt ELSE body.amount.n)
      w1 == [T EXCEPT !.student_master =
               {IF s.stuid = body.stuid
                THEN [s EXCEPT !.balance = Max(0, s.balance - useAmt)] ELSE s : s \in @}]
      w2 == ensureProgressRow(w1, body.stuid)
      w3 == syncProgressMirror(w2, body.stuid)
      w4 == upsertFinanceRow(w3, body.stuid, JUndef, JUndef)
      failed(work) == [status |-> 500, error |-> <<"F","a","i","l","e","d"," ","t","o"," ","s","e","t","t","l","e"," ","s","e","m","e","s","t","e","r">>,
                       tables |-> ROLLBACK(T, work), releases |-> 1]
  IN  IF Falsy(body.stuid) \/ semN.nan \/ semN.n < 1 \/ semN.n > 10
      THEN [status |-> 400, error |-> <<"s","t","u","i","d"," ","a","n","d"," ","s","e","m","e","s","t","e","r"," ","(","1",".",".","1","0",")"," ","a","r","e"," ","r","e","q","u","i","r","e","d">>,
            tables |-> T, releases |-> 2]
      ELSE IF failAt \in {1, 2} THEN failed(T)
      ELSE IF ~HasRow(T.student_master, body.stuid)
      THEN [status |-> 404, error |-> <<"S","t","u","d","e","n","t"," ","n","o","t"," ","f","o","u","n","d">>,
            tables |-> ROLLBACK(T, T), releases |-> 2]
      ELSE IF useAmt <= 0 /\ currentSemAmt <= 0
      THEN [status |-> 200, message |-> <<"N","o"," ","a","m","o","u","n","t"," ","t","o"," ","s","e","t","t","l","e">>, tables |-> T,
            releases |-> 2]
      ELSE IF failAt = 3 THEN failed(T)
      ELSE IF failAt = 4 THEN failed(w1)
      ELSE IF failAt = 5 THEN failed(w2)
      ELSE IF failAt = 6 THEN failed(w3)
      ELSE IF failAt = 7 THEN failed(w4)
      ELSE [status |-> 200, message |-> <<"S","e","t","t","l","e","d"," ","a","n","d"," ","u","p","d","a","t","e","d"," ","b","a","l","a","n","c","e">>,
            tables |-> w4, releases |-> 1]

\* req.body of POST /finance/upsert
FinanceBodies ==
  {[stuid |-> s, total_semesters |-> t, program_fee_override |-> JUndef] :
     s \in {<<"S","T","U","_","0","0","1">>, UNDEFINED}, t \in {JUndef, JNum(20)}}

\* req.body of POST /settle-semester
SettleBodies ==
  {[stuid |-> s, semester |-> n, amount |-> a] :
     s \in {<<"S","T","U","_","0","0","1">>, UNDEFINED}, n \in {JNum(1), JNum(11)}, a \in {JUndef, JNum(2500)}}

FinanceUpsert(bodies, fails) ==
  \E body \in bodies, failAt \in fails :
    \E out \in {financeUpsert(Tables(student_master, ay_2025_2026, fin_master_student),
                              body, failAt)} :
      Answer("finance", body.stuid, body, failAt, out)

SettleSemester(bodies, fails) ==
  \E body \in bodies, failAt \in fails :
    \E out \in {settleSemester(Tables(student_master, ay_2025_2026, fin_master_student),
                               body, failAt)} :
      Answer("settle", body.stuid, body, failAt, out)

\* The student routes that take a client from the pool, for one student.
NextPool ==
  \/ AddStudentOf({<<"S","T","U","_","0","0","1">>}, {StudentBody(<<"A","s","h","a"," ","R","a","o">>, <<"D","i","p","l","o","m","a"," ","i","n"," ","C","i","v","i","l">>, JUndef)}, {0, 4})
  \/ UpdateStudentOf({<<"S","T","U","_","0","0","1">>}, {StudentBody(<<"A","."," ","R","a","o">>, NULL, JUndef)}, {0, 5})
  \/ DeleteStudentOf({<<"S","T","U","_","0","0","1">>}, {0})
  \/ FinanceUpsert(FinanceBodies, {0, 3})
  \/ SettleSemester(SettleBodies, {0, 6})

SpecPool == Init /\ [][NextPool]_vars

(***************************************************************************)
(* The bulk CSV import of student_master.  The handler sends BEGIN, one    *)
(* INSERT for each slice of CHUNK records, and COMMIT or ROLLBACK through  *)
(* pool.query, which runs each statement on a connection that is idle at   *)
(* that moment, or on a new one when none is.  Every statement is a step;  *)
(* between two steps another request may hold a connection.                *)
(***************************************************************************)
\* records per INSERT statement
CHUNK == 500

\* a connection outside a transaction
NoTxn == [open |-> FALSE, aborted |-> FALSE, pending |-> {}]

\* the connections pool.query may run a statement on: an idle one, or a new
\* one (numbered after the last) when none is idle
Takes(cs) == IF cs.idle # {} THEN cs.idle ELSE {Len(cs.txn) + 1}

\* the transaction state of connection c
TxnOf(cs, c) == IF c <= Len(cs.txn) THEN cs.txn[c] ELSE NoTxn

\* connection c is idle again, with transaction state t
Released(cs, c, t) ==
  [cs EXCEPT !.idle = @ \cup {c},
             !.txn = IF c <= Len(cs.txn) THEN [@ EXCEPT ![c] = t] ELSE Append(@, t)]

\* parse(csvBuffer): n records with stuid 1..n; the records in bad carry a
\* date of birth that is no timestamp
Csv(n, bad) ==
  [i \in 1..n |-> [stuid |-> i, studob |-> IF i \in bad THEN <<"3","1","/","3","1","/","2","0","0","1">> ELSE NULL]]

\* records.slice(start, start + CHUNK)
slice(records, start) ==
  {records[i] : i \in (start + 1)..Min(Len(records), start + CHUNK)}

\* INSERT ... VALUES rows ON CONFLICT (stuid) DO NOTHING fails as a whole
\* when a value has no valid syntax for its column
insertFails(rows) == \E r \in rows : r.studob # NULL

\* the rows of the slice that are not in the table the statement sees
inserted(seen, rows) == {r \in rows : ~\E s \in seen : s.stuid = r.stuid}

\* POST /bulk: the records are parsed and BEGIN is sent
BulkBegin(csvs) ==
  /\ "bulk" \notin DOMAIN inflight
  /\ \E records \in csvs, c \in Takes(clients) :
       /\ clients' = Released(clients, c, [TxnOf(clients, c) EXCEPT !.open = TRUE])
       /\ inflight' = [bulk |-> [pc |-> "insert", records |-> records, start |-> 0,
                                 totalInserted |-> 0]]
       /\ last' = [op |-> "bulk", step |-> "BEGIN", client |-> c]
  /\ response' = [status |-> 0]
  /\ UNCHANGED <<studentTables, cms_stu_fee_invoice, cms_stu_scholarship, pool, auditVars>>

\* POST /bulk: the INSERT of the next slice, or COMMIT after the last
BulkStatement ==
  /\ "bulk" \in DOMAIN inflight /\ inflight.bulk.pc = "insert"
  /\ \E c \in Takes(clients) :
       LET b == inflight.bulk
           t == TxnOf(clients, c)
           rows == slice(b.records, b.start)
           new == inserted(student_master \cup t.pending, rows)
       IN  IF b.start < Len(b.records)
           THEN IF t.aborted \/ insertFails(rows)
                THEN /\ clients' = Released(clients, c, [t EXCEPT !.aborted = t.open])
                     /\ inflight' = [bulk |-> [b EXCEPT !.pc = "rollback"]]
                     /\ UNCHANGED student_master
                     /\ response' = [status |-> 0]
                     /\ last' = [op |-> "bulk", step |-> "INSERT failed", client |-> c]
                ELSE /\ clients' = Released(clients, c,
                                            IF t.open THEN [t EXCEPT !.pending = @ \cup new]
                                            ELSE t)
                     /\ student_master' = IF t.open THEN student_master
                                          ELSE student_master \cup new
                     /\ inflight' = [bulk |-> [b EXCEPT !.start = @ + CHUNK,
                                                        !.totalInserted = @ + Cardinality(new)]]
                     /\ response' = [status |-> 0]
                     /\ last' = [op |-> "bulk", step |-> "INSERT", client |-> c]
           ELSE /\ clients' = Released(clients, c, NoTxn)
                /\ student_master' = IF t.open /\ ~t.aborted
                                     THEN student_master \cup t.pending ELSE student_master
                /\ inflight' = <<>>
                /\ response' = [status |-> 200, total_rows |-> Len(b.records),
                                inserted_rows |-> b.totalInserted]
                /\ last' = [op |-> "bulk", step |-> "COMMIT", client |-> c,
                            records |-> b.records]
  /\ UNCHANGED <<ay_2025_2026, fin_master_student, cms_stu_fee_invoice, cms_stu_scholarship, pool, auditVars>>

\* POST /bulk: the catch block sends ROLLBACK and answers 500
BulkRollback ==
  /\ "bulk" \in DOMAIN inflight /\ inflight.bulk.pc = "rollback"
  /\ \E c \in Takes(clients) :
       /\ clients' = Released(clients, c, NoTxn)
       /\ last' = [op |-> "bulk", step |-> "ROLLBACK", client |-> c,
                   records |-> inflight.bulk.records]
  /\ inflight' = <<>>
  /\ response' = [status |-> 500,
                  error |-> <<"I","n","t","e","r","n","a","l"," ","s","e","r","v","e","r"," ","e","r","r","o","r"," ","d","u","r","i","n","g"," ","b","u","l","k"," ","i","n","s","e","r","t",".">>]
  /\ UNCHANGED <<studentTables, cms_stu_fee_invoice, cms_stu_scholarship, pool, auditVars>>

\* GET /:stuid of another request: its SELECT holds a connection
OtherQueryStart ==
  /\ clients.held = {}
  /\ \E c \in Takes(clients) :
       clients' = [Released(clients, c, TxnOf(clients, c))
                     EXCEPT !.idle = @ \ {c}, !.held = {c}]
  /\ last' = [op |-> "get", step |-> "SELECT"]
  /\ response' = [status |-> 0]
  /\ UNCHANGED <<studentTables, cms_stu_fee_invoice, cms_stu_scholarship, pool, inflight, auditVars>>

\* the SELECT of the other request returns
OtherQueryEnd ==
  /\ clients.held # {}
  /\ clients' = [clients EXCEPT !.idle = @ \cup clients.held, !.held = {}]
  /\ last' = [op |-> "get", step |-> "answer"]
  /\ response' = [status |-> 200]
  /\ UNCHANGED <<studentTables, cms_stu_fee_invoice, cms_stu_scholarship, pool, inflight, auditVars>>

\* a file of two slices, and the same file with a bad date in its last record
BulkCsvs == {Csv(CHUNK + 1, {}), Csv(CHUNK + 1, {CHUNK + 1})}

NextBulk ==
  \/ BulkBegin(BulkCsvs)
  \/ BulkStatement
  \/ BulkRollback
  \/ OtherQueryStart
  \/ OtherQueryEnd

SpecBulk == Init /\ [][NextBulk]_vars

(***************************************************************************)
(* The recorder and the summary, with an event that meets all four rules   *)
(* of calculateRiskScore                                                   *)
(***************************************************************************)
RiskInputs ==
  {[NoData EXCEPT !.event_type = EVENT_TYPES.LOGIN_FAILED, !.attempted_userid = bob,
                  !.user_roles = RolesString(<<"S","M","S","_","S","U","P","E","R","A","D","M">>)],
   [NoData EXCEPT !.event_type = EVENT_TYPES.LOGIN_SUCCESS, !.userid = alice,
                  !.success = "true"]}

\* logAuditEvent(auditData, req) called with a request
LogRequest(inputs, reqs) ==
  \E d \in inputs, req \in reqs, db \in DB :
    Record("log", d.userid, d.user_roles, d, req, db)

NextRisk ==
  \/ Tick(Times)
  \/ LogRequest(RiskInputs, {ReqBot})
  \/ LoginFailed({ReqCurl, ReqBare})
  \/ Summary

SpecRisk == Init /\ [][NextRisk]_vars

(***************************************************************************)
(* routes/cmsStudentFeeInvoice.js: the balance helpers                     *)
(***************************************************************************)
\* Number(v) of a JSON value: a number, a string of digits with an optional
\* sign ('' is 0), null (0); anything else is NaN
Number(v) ==
  CASE v.t = "num" -> Num(v.n)
    [] v.t = "null" -> Num(0)
    [] v.t = "str" ->
         LET a == trim(v.s)
             b == IF a # <<>> /\ a[1] \in {"-", "+"} THEN Tail(a) ELSE a
         IN  IF a = <<>> THEN Num(0)
             ELSE IF b # <<>> /\ \A i \in 1..Len(b) : \E k \in 1..10 : DIGITS[k] = b[i]
             THEN Num((IF a[1] = "-" THEN -1 ELSE 1) * DigitsValue(b))
             ELSE NaN
    [] OTHER -> NaN

\* a helper threw new Error(message)
Threw(message) == [threw |-> TRUE, message |-> message]

\* getStudentBalance: COALESCE(balance, 0.00) of the student's row
getStudentBalance(master, studentId) ==
  IF ~HasRow(master, studentId) THEN Threw(<<"S","t","u","d","e","n","t"," ","n","o","t"," ","f","o","u","n","d">>)
  ELSE [threw |-> FALSE, balance |-> RowOf(master, studentId).balance]

\* setStudentBalance: UPDATE public.student_master SET balance = $2
setStudentBalance(master, studentId, newValue) ==
  IF newValue < 0 THEN Threw(<<"b","a","l","a","n","c","e"," ","m","u","s","t"," ","b","e"," ","a"," ","n","o","n","-","n","e","g","a","t","i","v","e"," ","n","u","m","b","e","r">>)
  ELSE IF ~HasRow(master, studentId) THEN Threw(<<"S","t","u","d","e","n","t"," ","n","o","t"," ","f","o","u","n","d">>)
  ELSE [threw |-> FALSE, balance |-> newValue,
        master |-> {IF s.stuid = studentId THEN [s EXCEPT !.balance = newValue] ELSE s :
                      s \in master}]

\* applyBalanceDelta up to its first query: the checks of amount and stuid
\* and the signed delta
balanceDelta(studentId, amount, sign) ==
  LET amt == Number(amount)
  IN  IF Falsy(studentId) THEN Threw(<<"s","t","u","i","d"," ","r","e","q","u","i","r","e","d">>)
      ELSE IF amt.nan \/ amt.n <= 0 THEN Threw(<<"a","m","o","u","n","t"," ","m","u","s","t"," ","b","e"," ","a"," ","p","o","s","i","t","i","v","e"," ","n","u","m","b","e","r">>)
      ELSE [threw |-> FALSE, delta |-> (IF sign = "plus" THEN 1 ELSE -1) * amt.n]

\* applyBalanceDelta: next = Math.max(current + factor * amt, 0)
nextBalance(current, delta) == Max(current + delta, 0)

\* applyBalanceDelta when no other statement runs between its two queries
applyBalanceDelta(master, studentId, amount, sign) ==
  LET d == balanceDelta(studentId, amount, sign)
      current == getStudentBalance(master, studentId)
  IN  IF d.threw THEN d
      ELSE IF current.threw THEN current
      ELSE LET updated == setStudentBalance(master, studentId,
                                            nextBalance(current.balance, d.delta))
           IN  IF updated.threw THEN updated
               ELSE [threw |-> FALSE, prev_balance |-> current.balance, delta |-> d.delta,
                     balance |-> updated.balance, master |-> updated.master]

(***************************************************************************)
(* PUT /adjust/balance, one step per awaited statement.  Each request has  *)
(* its own client (db.connect()) and its own transaction; the database     *)
(* runs them READ COMMITTED: a SELECT sees what is committed, an UPDATE    *)
(* waits for the row lock of another open transaction that wrote the row.  *)
(***************************************************************************)
Requests == {1, 2}

Idle == [pc |-> "idle"]

AdjustBodies ==
  {[stuid |-> <<"S","T","U","_","0","0","1">>, amount |-> JNum(a), op |-> o] :
     a \in {0, 2500, 4000}, o \in {<<"p","l","u","s">>, <<"m","i","n","u","s">>}}

\* the state after POST /add of one student: the student, its two mirror
\* rows, and the client that POST /add never gives back
InitAdjust ==
  /\ audit_log = {}
  /\ nextId = 1
  /\ now = Start
  /\ ret = [kind |-> "none"]
  /\ response = [status |-> 0]
  /\ ledger = {}
  /\ last = [op |-> "init"]
  /\ \E out \in {addStudent(Tables({}, {}, {}), <<"S","T","U","_","0","0","1">>,
                            StudentBody(<<"A","s","h","a"," ","R","a","o">>, <<"D","i","p","l","o","m","a"," ","i","n"," ","C","i","v","i","l">>, JUndef), 0)} :
       /\ student_master = out.tables.student_master
       /\ ay_2025_2026 = out.tables.ay_2025_2026
       /\ fin_master_student = out.tables.fin_master_student
       /\ pool = 1 - out.releases
  /\ cms_stu_fee_invoice = {}
  /\ cms_stu_scholarship = <<>>
  /\ clients = [idle |-> {}, held |-> {}, txn |-> <<>>]
  /\ inflight = [r \in Requests |-> Idle]

\* db.connect(), BEGIN, and applyBalanceDelta up to the result of its SELECT;
\* a throw goes to the catch block: ROLLBACK, 400, release
AdjustRead(r, bodies) ==
  \E body \in bodies :
    \E d \in {balanceDelta(body.stuid, body.amount,
                           IF body.op = <<"p","l","u","s">> THEN "plus" ELSE "minus")},
       current \in {getStudentBalance(student_master, body.stuid)} :
      /\ inflight[r].pc = "idle"
      /\ pool < PoolMax
      /\ IF d.threw \/ current.threw
         THEN /\ inflight' = [inflight EXCEPT ![r] = [pc |-> "done", status |-> 400, body |-> body]]
              /\ response' = [status |-> 400,
                              error |-> IF d.threw THEN d.message ELSE current.message]
              /\ pool' = pool
         ELSE /\ inflight' = [inflight EXCEPT ![r] =
                                [pc |-> "read", body |-> body, delta |-> d.delta,
                                 prev_balance |-> current.balance,
                                 next |-> nextBalance(current.balance, d.delta)]]
              /\ response' = response
              /\ pool' = pool + 1
      /\ last' = [op |-> "adjust-read", r |-> r, body |-> body]
      /\ UNCHANGED <<studentTables, cms_stu_fee_invoice, cms_stu_scholarship, clients, auditVars>>

\* setStudentBalance's UPDATE: it takes the row lock, so it runs only when no
\* other open transaction has written the row
AdjustUpdate(r) ==
  /\ inflight[r].pc = "read"
  /\ \A o \in Requests \ {r} : inflight[o].pc # "written"
  /\ inflight' = [inflight EXCEPT ![r] = [inflight[r] EXCEPT !.pc = "written"]]
  /\ last' = [op |-> "adjust-update", r |-> r, body |-> inflight[r].body]
  /\ UNCHANGED <<studentTables, cms_stu_fee_invoice, cms_stu_scholarship, pool, clients, response, auditVars>>

\* COMMIT, the 200 answer, client.release()
AdjustCommit(r) ==
  /\ inflight[r].pc = "written"
  /\ \E updated \in {setStudentBalance(student_master, inflight[r].body.stuid, inflight[r].next)} :
       /\ student_master' = updated.master
       /\ response' = [status |-> 200, previous_balance |-> inflight[r].prev_balance,
                       delta |-> inflight[r].delta, balance |-> updated.balance]
  /\ inflight' = [inflight EXCEPT ![r] = [pc |-> "done", status |-> 200,
                                          body |-> inflight[r].body,
                                          delta |-> inflight[r].delta]]
  /\ pool' = pool - 1
  /\ last' = [op |-> "adjust-commit", r |-> r, body |-> inflight[r].body]
  /\ UNCHANGED <<ay_2025_2026, fin_master_student, cms_stu_fee_invoice, cms_stu_scholarship, clients, auditVars>>

NextAdjust ==
  \/ \E r \in Requests : AdjustRead(r, AdjustBodies)
  \/ \E r \in Requests : AdjustUpdate(r)
  \/ \E r \in Requests : AdjustCommit(r)

SpecAdjust == InitAdjust /\ [][NextAdjust]_vars

(***************************************************************************)
(* routes/cmsStudentFeeInvoice.js: the router.  Express tries the routes   *)
(* in the order of their registration and runs the first whose method and  *)
(* path pattern match; a pattern segment that starts with ':' matches any  *)
(* one segment.  A path is the sequence of its segments.                   *)
(***************************************************************************)
invoiceRoutes ==
  << [method |-> "GET",    path |-> <<<<"s","t","u","d","e","n","t">>, <<":","i","d">>, <<"b","a","l","a","n","c","e">>>>, handler |-> "GET /student/:id/balance"],
     [method |-> "PUT",    path |-> <<<<"s","t","u","d","e","n","t">>, <<"b","a","l","a","n","c","e">>>>,          handler |-> "PUT /student/balance"],
     [method |-> "GET",    path |-> <<>>,                                  handler |-> "GET /"],
     [method |-> "GET",    path |-> <<<<":","i","d">>>>,                           handler |-> "GET /:id"],
     [method |-> "POST",   path |-> <<>>,                                  handler |-> "POST /"],
     [method |-> "PUT",    path |-> <<<<":","i","d">>>>,                           handler |-> "PUT /:id"],
     [method |-> "DELETE", path |-> <<<<":","i","d">>>>,                           handler |-> "DELETE /:id"],
     [method |-> "PUT",    path |-> <<<<"a","p","p","l","y","-","p","a","y","m","e","n","t">>>>,                 handler |-> "PUT /apply-payment"],
     [method |-> "PUT",    path |-> <<<<"r","e","v","e","r","t","-","p","a","y","m","e","n","t">>>>,                handler |-> "PUT /revert-payment"],
     [method |-> "PUT",    path |-> <<<<"a","d","j","u","s","t">>, <<"b","a","l","a","n","c","e">>>>,           handler |-> "PUT /adjust/balance"] >>

routeMatches(route, method, path) ==
  /\ route.method = method
  /\ Len(route.path) = Len(path)
  /\ \A i \in 1..Len(path) : route.path[i][1] = ":" \/ route.path[i] = path[i]

\* the handler that Express runs for a request, "" when no route matches
dispatch(method, path) ==
  LET hits == {i \in 1..Len(invoiceRoutes) : routeMatches(invoiceRoutes[i], method, path)}
  IN  IF hits = {} THEN ""
      ELSE invoiceRoutes[CHOOSE i \in hits : \A j \in hits : i <= j].handler

\* toNull(v) != null ? Number(v) : null, as a JSON value
toAmount(v) ==
  IF v.t = "undef" \/ (v.t = "str" /\ v.s = <<>>) THEN JOf(NULL)
  ELSE IF Number(v).nan THEN JNaN ELSE JNum(Number(v).n)

\* what a handler of this router did: its answer, the two tables after it,
\* and the tables its statements name
Did(status, error, master, invoices, queried) ==
  [status |-> status, error |-> error, master |-> master, invoices |-> invoices,
   queried |-> queried, json |-> <<>>]

\* PUT /student/balance without the check of a negative balance
putStudentBalanceUnchecked(master, invoices, body, failAt) ==
  LET val == Number(body.balance)
  IN  IF Falsy(body.stuid) \/ trim(body.stuid) = <<>>
      THEN Did(400, <<"s","t","u","i","d"," ","i","s"," ","r","e","q","u","i","r","e","d">>, master, invoices, {})
      ELSE IF val.nan THEN Did(400, <<"b","a","l","a","n","c","e"," ","m","u","s","t"," ","b","e"," ","a"," ","n","u","m","b","e","r">>, master, invoices, {})
      ELSE IF failAt = 1
      THEN Did(500, <<"I","n","t","e","r","n","a","l"," ","s","e","r","v","e","r"," ","e","r","r","o","r">>, master, invoices, {"student_master"})
      ELSE IF ~HasRow(master, trim(body.stuid))
      THEN Did(404, <<"S","t","u","d","e","n","t"," ","n","o","t"," ","f","o","u","n","d">>, master, invoices, {"student_master"})
      ELSE Did(200, <<>>,
               {IF s.stuid = trim(body.stuid) THEN [s EXCEPT !.balance = val.n] ELSE s :
                  s \in master},
               invoices, {"student_master"})

\* PUT /student/balance
putStudentBalance(master, invoices, body, failAt) ==
  LET val == Number(body.balance)
  IN  IF Falsy(body.stuid) \/ trim(body.stuid) = <<>>
      THEN Did(400, <<"s","t","u","i","d"," ","i","s"," ","r","e","q","u","i","r","e","d">>, master, invoices, {})
      ELSE IF val.nan THEN Did(400, <<"b","a","l","a","n","c","e"," ","m","u","s","t"," ","b","e"," ","a"," ","n","u","m","b","e","r">>, master, invoices, {})
      ELSE IF val.n < 0 THEN Did(400, <<"b","a","l","a","n","c","e"," ","c","a","n","n","o","t"," ","b","e"," ","n","e","g","a","t","i","v","e">>, master, invoices, {})
      ELSE IF failAt = 1
      THEN Did(500, <<"I","n","t","e","r","n","a","l"," ","s","e","r","v","e","r"," ","e","r","r","o","r">>, master, invoices, {"student_master"})
      ELSE IF ~HasRow(master, trim(body.stuid))
      THEN Did(404, <<"S","t","u","d","e","n","t"," ","n","o","t"," ","f","o","u","n","d">>, master, invoices, {"student_master"})
      ELSE Did(200, <<>>,
               {IF s.stuid = trim(body.stuid) THEN [s EXCEPT !.balance = val.n] ELSE s :
                  s \in master},
               invoices, {"student_master"})

\* PUT /:id, the update of an invoice; the request carries no tdoc, ndoc
putInvoice(master, invoices, id, body, failAt) ==
  IF failAt = 1
  THEN Did(500, <<"I","n","t","e","r","n","a","l"," ","s","e","r","v","e","r"," ","e","r","r","o","r">>, master, invoices, {"cms_stu_fee_invoice"})
  ELSE IF ~\E v \in invoices : v.cms_stu_inv_id = id
  THEN Did(404, <<"I","n","v","o","i","c","e"," ","n","o","t"," ","f","o","u","n","d">>, master, invoices, {"cms_stu_fee_invoice"})
  ELSE IF failAt = 2
  THEN Did(500, <<"I","n","t","e","r","n","a","l"," ","s","e","r","v","e","r"," ","e","r","r","o","r">>, master, invoices, {"cms_stu_fee_invoice"})
  ELSE Did(200, <<>>, master,
           {IF v.cms_stu_inv_id = id
            THEN [v EXCEPT !.cms_stu_id = IF body.cms_stu_id = UNDEFINED THEN NULL
                                          ELSE body.cms_stu_id,
                           !.cms_fee_amt = toAmount(body.cms_fee_amt)]
            ELSE v : v \in invoices},
           {"cms_stu_fee_invoice"})

\* PUT /apply-payment (sign 'minus'), PUT /revert-payment (sign 'plus') and
\* PUT /adjust/balance (sign from op): BEGIN, applyBalanceDelta, COMMIT; any
\* throw is answered 400 with its message after ROLLBACK
putBalanceDelta(master, invoices, body, sign, failAt) ==
  LET done == applyBalanceDelta(master, body.stuid, body.amount, sign)
  IN  IF failAt = 1 THEN Did(400, <<"C","o","n","n","e","c","t","i","o","n"," ","t","e","r","m","i","n","a","t","e","d">>, master, invoices, {})
      ELSE IF done.threw
      THEN Did(400, done.message, master, invoices,
               IF balanceDelta(body.stuid, body.amount, sign).threw THEN {}
               ELSE {"student_master"})
      ELSE IF failAt = 2
      THEN Did(400, <<"C","o","n","n","e","c","t","i","o","n"," ","t","e","r","m","i","n","a","t","e","d">>, master, invoices, {"student_master"})
      ELSE [Did(200, <<>>, done.master, invoices, {"student_master"})
              EXCEPT !.json = [previous_balance |-> done.prev_balance, delta |-> done.delta,
                               balance |-> done.balance]]

\* the invoice router on one PUT request
putRequest(master, invoices, path, body, failAt) ==
  LET handler == dispatch("PUT", path)
  IN  CASE handler = "PUT /student/balance" -> putStudentBalance(master, invoices, body, failAt)
        [] handler = "PUT /:id" -> putInvoice(master, invoices, path[1], body, failAt)
        [] handler = "PUT /apply-payment" -> putBalanceDelta(master, invoices, body, "minus", failAt)
        [] handler = "PUT /revert-payment" -> putBalanceDelta(master, invoices, body, "plus", failAt)
        [] handler = "PUT /adjust/balance" ->
             putBalanceDelta(master, invoices, body,
                             IF body.op = <<"p","l","u","s">> THEN "plus" ELSE "minus", failAt)
        [] OTHER -> Did(404, <<"C","a","n","n","o","t"," ","P","U","T">>, master, invoices, {})

\* POST /, the creation of an invoice; the invoice id is the client's
postInvoice(master, invoices, body, failAt) ==
  IF Falsy(body.cms_stu_inv_id) \/ Falsy(body.cms_stu_id)
  THEN Did(400, <<"R","e","q","u","i","r","e","d"," ","f","i","e","l","d","s"," ","a","r","e"," ","m","i","s","s","i","n","g">>, master, invoices, {})
  ELSE IF failAt = 1
  THEN Did(500, <<"I","n","t","e","r","n","a","l"," ","s","e","r","v","e","r"," ","e","r","r","o","r">>, master, invoices, {"cms_stu_fee_invoice"})
  ELSE IF \E v \in invoices : v.cms_stu_inv_id = body.cms_stu_inv_id
  THEN Did(409, <<"D","u","p","l","i","c","a","t","e"," ","d","o","c","u","m","e","n","t"," ","f","o","r"," ","t","h","i","s"," ","s","t","u","d","e","n","t">>, master, invoices,
           {"cms_stu_fee_invoice"})
  ELSE Did(201, <<>>, master,
           invoices \cup {[cms_stu_inv_id |-> body.cms_stu_inv_id,
                           cms_stu_id |-> body.cms_stu_id,
                           cms_fee_amt |-> toAmount(body.cms_fee_amt)]},
           {"cms_stu_fee_invoice"})

MaxBalance == 10000

PutPaths ==
  {<<<<"s","t","u","d","e","n","t">>, <<"b","a","l","a","n","c","e">>>>, <<<<"a","p","p","l","y","-","p","a","y","m","e","n","t">>>>, <<<<"r","e","v","e","r","t","-","p","a","y","m","e","n","t">>>>,
   <<<<"a","d","j","u","s","t">>, <<"b","a","l","a","n","c","e">>>>, <<<<"I","N","V","_","1">>>>, <<<<"a","d","j","u","s","t">>>>}

\* the bodies of the balance requests and of an invoice update
PutBody(stuid, amount, op, balance) ==
  [stuid |-> stuid, amount |-> amount, op |-> op, balance |-> balance,
   cms_stu_id |-> UNDEFINED, cms_fee_amt |-> JUndef]

PutBodies ==
  {PutBody(<<"S","T","U","_","0","0","1">>, JNum(2500), <<"p","l","u","s">>, JNum(1500)),
   PutBody(<<"S","T","U","_","0","0","1">>, JNum(7000), UNDEFINED, JNum(0 - 100)),
   PutBody(<<"S","T","U","_","0","0","1">>, JNum(0), UNDEFINED, JStr(<<"a","b","c">>)),
   PutBody(UNDEFINED, JNum(2500), UNDEFINED, JNum(1500))}

InvoiceBodies ==
  {[stuid |-> UNDEFINED, amount |-> JUndef, op |-> UNDEFINED, balance |-> JUndef,
    cms_stu_id |-> <<"S","T","U","_","0","0","1">>, cms_fee_amt |-> JNum(1200)]}

PostBodies ==
  {[cms_stu_inv_id |-> i, cms_stu_id |-> <<"S","T","U","_","0","0","1">>, cms_fee_amt |-> JNum(900)] :
     i \in {<<"I","N","V","_","1">>, <<"a","p","p","l","y","-","p","a","y","m","e","n","t">>, UNDEFINED}}

InvoiceAnswer(op, path, stuid, body, failAt, out, handler) ==
  /\ \A s \in out.master : s.balance <= MaxBalance
  /\ student_master' = out.master
  /\ cms_stu_fee_invoice' = out.invoices
  /\ response' = [status |-> out.status, error |-> out.error, json |-> out.json]
  /\ last' = [op |-> op, path |-> path, stuid |-> stuid, body |-> body,
              failAt |-> failAt, handler |-> handler, queried |-> out.queried]
  /\ UNCHANGED <<ay_2025_2026, fin_master_student, cms_stu_scholarship, pool, clients, inflight,
                 auditVars>>

InvoicePut(paths, bodies, fails) ==
  \E path \in paths, body \in bodies, failAt \in fails :
    \E out \in {putRequest(student_master, cms_stu_fee_invoice, path, body, failAt)} :
      InvoiceAnswer("PUT", path, body.stuid, body, failAt, out, dispatch("PUT", path))

InvoicePost(bodies, fails) ==
  \E body \in bodies, failAt \in fails :
    \E out \in {postInvoice(student_master, cms_stu_fee_invoice, body, failAt)} :
      InvoiceAnswer("POST", <<>>, body.cms_stu_id, body, failAt, out, dispatch("POST", <<>>))

NextBalance ==
  \/ AddStudentOf({<<"S","T","U","_","0","0","1">>}, {StudentBody(<<"A","s","h","a"," ","R","a","o">>, <<"D","i","p","l","o","m","a"," ","i","n"," ","C","i","v","i","l">>, JUndef)}, {0})
  \/ UpdateStudentOf({<<"S","T","U","_","0","0","1">>}, {StudentBody(<<"A","s","h","a"," ","R","a","o">>, <<"D","i","p","l","o","m","a"," ","i","n"," ","C","i","v","i","l">>, JNum(500))}, {0, 5})
  \/ SettleSemester({b \in SettleBodies : b.stuid # UNDEFINED}, {0, 6})
  \/ InvoicePut(PutPaths \ {<<<<"I","N","V","_","1">>>>, <<<<"a","d","j","u","s","t">>>>}, PutBodies, {0, 2})

SpecBalance == Init /\ [][NextBalance]_vars

NextInvoice ==
  \/ InvoicePut(PutPaths, PutBodies \cup InvoiceBodies, {0, 1, 2})
  \/ InvoicePost(PostBodies, {0, 1})

SpecInvoice == InitAdjust /\ [][NextInvoice]_vars

(***************************************************************************)
(* routes/cmsStuScholarship.js: create, update and delete of a scholarship *)
(* and the mirror of its amount in student_master.scholrshipfees.  The     *)
(* rows of cms_stu_scholarship are kept in the order of                    *)
(* COALESCE(updatedat, createdat): a created or updated row is the last.   *)
(***************************************************************************)
SCHOLARSHIP_FALLBACK_AMOUNT == 0

\* toNumberOrNull, as a JSON value; the amounts are whole numbers, on which
\* Number.parseFloat is parseInt
toNumberOrNull(v) ==
  IF v.t \in {"undef", "null"} \/ (v.t = "str" /\ v.s = <<>>) THEN JOf(NULL)
  ELSE IF parseInt(v).nan THEN JNaN ELSE JNum(parseInt(v).n)

\* UPDATE public.student_master SET scholrshipfees = $1 WHERE stuid = $2
mirrorScholarship(master, stuid, amt) ==
  {IF s.stuid = stuid
   THEN [s EXCEPT !.scholrshipfees = IF amt.t = "null" THEN SCHOLARSHIP_FALLBACK_AMOUNT
                                     ELSE amt.n]
   ELSE s : s \in master}

\* the rows other than the scholarship id, in their order
RECURSIVE withoutId(_, _)
withoutId(rows, id) ==
  IF rows = <<>> THEN <<>>
  ELSE (IF Head(rows).cms_schol_id = id THEN <<>> ELSE <<Head(rows)>>)
         \o withoutId(Tail(rows), id)

hasId(rows, id) == \E i \in 1..Len(rows) : rows[i].cms_schol_id = id

rowOfId(rows, id) == rows[CHOOSE i \in 1..Len(rows) : rows[i].cms_schol_id = id]

\* SELECT cms_stu_schol_amt ... WHERE cms_schol_stuid = $1 ORDER BY
\* COALESCE(updatedat, createdat) DESC LIMIT 1: the rows found, none or one
latestOf(rows, stuid) ==
  LET mine == {i \in 1..Len(rows) : rows[i].cms_schol_stuid = stuid}
  IN  IF mine = {} THEN <<>>
      ELSE <<rows[CHOOSE i \in mine : \A j \in mine : j <= i]>>

\* what a handler of this router did
Schol(status, master, schols) == [status |-> status, master |-> master, schols |-> schols]

\* POST /
postScholarship(master, schols, body, failAt) ==
  LET amt == toNumberOrNull(body.cms_stu_schol_amt)
      row == [cms_schol_id |-> body.cms_schol_id, cms_schol_stuid |-> body.cms_schol_stuid,
              cms_stu_schol_amt |-> amt]
  IN  IF Falsy(body.cms_schol_id) \/ Falsy(body.cms_schol_stuid) THEN Schol(400, master, schols)
      ELSE IF amt.t = "nan" THEN Schol(400, master, schols)
      ELSE IF failAt = 1 THEN Schol(500, master, schols)
      ELSE IF hasId(schols, body.cms_schol_id) THEN Schol(500, master, schols)
      ELSE IF failAt = 2 THEN Schol(500, master, schols)
      ELSE Schol(201, mirrorScholarship(master, body.cms_schol_stuid, amt), Append(schols, row))

\* PUT /:id
putScholarship(master, schols, id, body, failAt) ==
  LET amt == toNumberOrNull(body.cms_stu_schol_amt)
      row == [cms_schol_id |-> id,
              cms_schol_stuid |-> IF Falsy(body.cms_schol_stuid)
                                  THEN rowOfId(schols, id).cms_schol_stuid
                                  ELSE body.cms_schol_stuid,
              cms_stu_schol_amt |-> amt]
  IN  IF amt.t = "nan" THEN Schol(400, master, schols)
      ELSE IF failAt = 1 THEN Schol(500, master, schols)
      ELSE IF ~hasId(schols, id) THEN Schol(404, master, schols)
      ELSE IF failAt = 2 THEN Schol(500, master, schols)
      ELSE Schol(200, mirrorScholarship(master, row.cms_schol_stuid, amt),
                 Append(withoutId(schols, id), row))

\* DELETE /:id
deleteScholarship(master, schols, id, failAt) ==
  LET deleted == rowOfId(schols, id)
      rest == withoutId(schols, id)
      latestRes == latestOf(rest, deleted.cms_schol_stuid)
  IN  IF failAt = 1 THEN Schol(500, master, schols)
      ELSE IF ~hasId(schols, id) THEN Schol(404, master, schols)
      ELSE IF failAt = 2 THEN Schol(500, master, schols)
      ELSE Schol(200,
                 mirrorScholarship(master, deleted.cms_schol_stuid,
                                   IF latestRes # <<>> /\ latestRes[1].cms_stu_schol_amt.t # "null"
                                   THEN latestRes[1].cms_stu_schol_amt
                                   ELSE JOf(NULL)),
                 rest)

ScholIds == {<<"S","C","H","_","1">>, <<"S","C","H","_","2">>}

ScholBodies(ids) ==
  {[cms_schol_id |-> i, cms_schol_stuid |-> s, cms_stu_schol_amt |-> a] :
     i \in ids, s \in StuIds \cup {UNDEFINED}, a \in {JNum(300), JNum(800), JUndef, JStr(<<"a","b","c">>)}}

\* the state after POST /add of the two students
InitScholarship ==
  /\ audit_log = {}
  /\ nextId = 1
  /\ now = Start
  /\ ret = [kind |-> "none"]
  /\ response = [status |-> 0]
  /\ ledger = {}
  /\ last = [op |-> "init"]
  /\ \E body \in {StudentBody(<<"A","s","h","a"," ","R","a","o">>, <<"D","i","p","l","o","m","a"," ","i","n"," ","C","i","v","i","l">>, JUndef)} :
       \E one \in {addStudent(Tables({}, {}, {}), <<"S","T","U","_","0","0","1">>, body, 0)} :
         \E two \in {addStudent(one.tables, <<"S","T","U","_","0","0","2">>, body, 0)} :
           /\ student_master = two.tables.student_master
           /\ ay_2025_2026 = two.tables.ay_2025_2026
           /\ fin_master_student = two.tables.fin_master_student
           /\ pool = (1 - one.releases) + (1 - two.releases)
  /\ cms_stu_fee_invoice = {}
  /\ cms_stu_scholarship = <<>>
  /\ clients = [idle |-> {}, held |-> {}, txn |-> <<>>]
  /\ inflight = <<>>

ScholarshipAnswer(op, id, body, failAt, out) ==
  /\ student_master' = out.master
  /\ cms_stu_scholarship' = out.schols
  /\ response' = [status |-> out.status]
  /\ last' = [op |-> op, id |-> id, body |-> body, failAt |-> failAt]
  /\ UNCHANGED <<ay_2025_2026, fin_master_student, cms_stu_fee_invoice, pool, clients, inflight,
                 auditVars>>

CreateScholarship ==
  \E body \in ScholBodies(ScholIds \cup {UNDEFINED}), failAt \in 0..2 :
    \E out \in {postScholarship(student_master, cms_stu_scholarship, body, failAt)} :
      ScholarshipAnswer("create", body.cms_schol_id, body, failAt, out)

UpdateScholarship ==
  \E id \in ScholIds, body \in ScholBodies({UNDEFINED}), failAt \in 0..2 :
    \E out \in {putScholarship(student_master, cms_stu_scholarship, id, body, failAt)} :
      ScholarshipAnswer("update", id, body, failAt, out)

DeleteScholarship ==
  \E id \in ScholIds, failAt \in 0..2 :
    \E out \in {deleteScholarship(student_master, cms_stu_scholarship, id, failAt)} :
      ScholarshipAnswer("delete", id, <<>>, failAt, out)

NextScholarship == CreateScholarship \/ UpdateScholarship \/ DeleteScholarship

SpecScholarship == InitScholarship /\ [][NextScholarship]_vars


AdminOps == {"list", "summary", "user", "cleanup", "export"}

\* the text s holds the text m somewhere
Contains(s, m) == \E i \in 1..(Len(s) - Len(m) + 1) : SubSeq(s, i, i + Len(m) - 1) = m

\* the role header is absent or does not hold the super administrator marker
LacksMarker(role) == role = UNDEFINED \/ ~Contains(role, <<"S","M","S","_","S","U","P","E","R","A","D","M">>)

\* C11: on each of the five admin endpoints a request whose role header is
\* absent or lacks the super administrator marker is answered 403 with the
\* refusal alone, and the step reads, deletes and writes nothing; the
\* handler runs only for the other requests.
AdminGate ==
  [][ last'.op \in AdminOps =>
        IF LacksMarker(last'.role)
        THEN /\ ~last'.admitted
             /\ response' = [status |-> 403, error |-> <<"A","d","m","i","n","i","s","t","r","a","t","i","v","e"," ","a","c","c","e","s","s"," ","r","e","q","u","i","r","e","d">>]
             /\ UNCHANGED <<audit_log, nextId, ledger>>
        ELSE last'.admitted ]_vars

\* C11: a cleanup request without a role header was refused over a table
\* that holds a row
DeniedOverRows ==
  /\ last.op = "cleanup"
  /\ ~last.admitted
  /\ last.role = UNDEFINED
  /\ response.status = 403
  /\ audit_log # {}

\* the rows of student stuid in the three tables
Footprint(master, progress, finance, stuid) ==
  <<{r \in master : r.stuid = stuid}, {r \in progress : r.stuid = stuid},
    {r \in finance : r.stuid = stuid}>>

\* C12: a student add, update or delete either answers success with the
\* student row, its progress mirror and its finance mirror all written
\* (or all removed), or answers 404 or 500 with none of the three tables
\* changed; the rows of other students are never touched.
StudentWritesAtomic ==
  [][ last'.op \in {"add", "update", "delete"} =>
        LET s == last'.stuid
            after == Footprint(student_master', ay_2025_2026', fin_master_student', s)
        IN  /\ \A o \in StuIds \ {s} :
                 Footprint(student_master', ay_2025_2026', fin_master_student', o)
                   = Footprint(student_master, ay_2025_2026, fin_master_student, o)
            /\ \/ /\ response'.status \in {404, 500}
                  /\ UNCHANGED studentTables
               \/ /\ response'.status \in {200, 201}
                  /\ last'.failAt = 0
                  /\ IF last'.op = "delete"
                     THEN after = <<{}, {}, {}>>
                     ELSE \E m \in after[1], p \in after[2], f \in after[3] :
                            /\ after = <<{m}, {p}, {f}>>
                            /\ m.stuname = last'.body.stuname
                            /\ p.stuname = m.stuname
                            /\ f.name = m.stuname ]_vars

\* C12: an add failed on its finance mirror, after the student row and the
\* progress row were inserted, and left no row of that student anywhere,
\* beside another student's rows
AddRolledBack ==
  /\ last.op = "add"
  /\ last.failAt = 4
  /\ response.status = 500
  /\ Footprint(student_master, ay_2025_2026, fin_master_student, last.stuid) = <<{}, {}, {}>>
  /\ student_master # {}

\* C13 as stated: whatever page and limit a List request carries, the
\* limit in effect lies in 1..500 (50 when absent, 500 for 1000), the page
\* in effect is at least 1 (1 for 0 and for negative values), and the rows
\* returned are those from offset (page - 1) * limit on, at most limit
\* of them.
PaginationClamped ==
  (last.op = "list" /\ last.admitted /\ last.db = "ok" /\ last.q \in PageQueries) =>
    /\ response.status = 200
    /\ LET p == response.pagination
           offset == (p.current_page - 1) * p.per_page
       IN  /\ p.per_page \in 1..500
           /\ last.q.limit = JUndef => p.per_page = 50
           /\ last.q.limit = JStr(<<"1","0","0","0">>) => p.per_page = 500
           /\ p.current_page >= 1
           /\ last.q.page \in {JUndef, JStr(<<"0">>), JStr(<<"-","3">>)} => p.current_page = 1
           /\ Len(response.data) = Max(0, Min(p.per_page, Cardinality(audit_log) - offset))

\* the column holds the text as a substring, letter case aside
HoldsText(col, text) == col # NULL /\ Contains(toLowerCase(col), toLowerCase(text))

\* row r satisfies every filter that query q supplies
Satisfies(r, q) ==
  /\ q.event_type # UNDEFINED => r.event_type = q.event_type
  /\ q.userid # UNDEFINED => HoldsText(r.userid, q.userid) \/ HoldsText(r.attempted_userid, q.userid)
  /\ q.success # UNDEFINED => r.success = (q.success = <<"t","r","u","e">>)
  /\ q.start_date # <<>> => r.event_timestamp >= q.start_date[1]
  /\ q.end_date # <<>> => r.event_timestamp <= q.end_date[1]
  /\ q.ip_address # UNDEFINED => HoldsText(r.ip_address, q.ip_address)
  /\ q.risk_score_min # UNDEFINED => r.risk_score >= DigitsValue(q.risk_score_min)
  /\ q.search # UNDEFINED =>
       \E c \in {"event_description", "userid", "attempted_userid", "error_message",
                 "user_agent"} : HoldsText(r[c], q.search)

\* C14 as stated: a List request that is answered returns exactly the
\* requested page of the rows that satisfy all the filters it supplies,
\* newest first, with total_records the number of those rows, total_pages
\* its quotient by the limit rounded up, has_next iff page < total_pages
\* and has_previous iff page > 1.
ListReturnsPage ==
  (last.op = "list" /\ last.admitted /\ response.status = 200) =>
    LET M == {r \in audit_log : Satisfies(r, last.q)}
        p == response.pagination
        data == response.data
        offset == (p.current_page - 1) * p.per_page
    IN  /\ p.total_records = Cardinality(M)
        /\ p.total_pages * p.per_page >= p.total_records
        /\ (p.total_pages - 1) * p.per_page < p.total_records \/ p.total_pages = 0
        /\ p.has_next = (p.current_page < p.total_pages)
        /\ p.has_previous = (p.current_page > 1)
        /\ Len(data) = Max(0, Min(p.per_page, Cardinality(M) - offset))
        /\ \A i \in 1..Len(data) :
             /\ \E r \in M : data[i] = Project(r, listColumns)
             /\ Cardinality({r \in M : r.event_timestamp > data[i].event_timestamp})
                  <= offset + i - 1
             /\ Cardinality({r \in M : r.event_timestamp >= data[i].event_timestamp})
                  >= offset + i
        /\ \A i, j \in 1..Len(data) : i < j => data[i].id # data[j].id

\* the table as an admitted export found it: without the row it wrote
BeforeExport == {r \in audit_log : r.id \notin last.written}

\* C15 as stated: an export that is answered carries exactly the rows List
\* selects for the same event type, user id, success flag, time range,
\* source IP, minimum risk and search text, newest first (the 10,000 row
\* cap is never reached here).
ExportSelectsAsList ==
  (last.op = "export" /\ last.admitted /\ response.status = 200) =>
    LET L == {r \in BeforeExport : listWhere(r, last.q)}
    IN  IF L = {} THEN ~response.csv
        ELSE /\ response.csv
             /\ \E ord \in OrderBy(L, LAMBDA a, b : a.event_timestamp > b.event_timestamp) :
                  response.body = csvContent(LimitOffset(ord, 10000, 0))

\* C15, amended: an export that is answered carries exactly the rows List
\* selects for the request's event type and time range alone, newest first;
\* its other parameters are not read.
ExportSelectsByTypeAndRange ==
  (last.op = "export" /\ last.admitted /\ response.status = 200) =>
    LET q == [NoQuery EXCEPT !.event_type = last.q.event_type,
                             !.start_date = last.q.start_date,
                             !.end_date = last.q.end_date]
        L == {r \in BeforeExport : listWhere(r, q)}
    IN  IF L = {} THEN ~response.csv
        ELSE /\ response.csv
             /\ \E ord \in OrderBy(L, LAMBDA a, b : a.event_timestamp > b.event_timestamp) :
                  response.body = csvContent(LimitOffset(ord, 10000, 0))

\* an export by event type that left a row of another type out
ExportFilteredByType ==
  /\ last.op = "export" /\ last.admitted
  /\ response.status = 200 /\ response.csv
  /\ last.q.event_type # UNDEFINED
  /\ \E r \in BeforeExport : r.event_type # last.q.event_type

\* position i of CSV text s lies outside quotes: an even number of quote
\* marks precedes it
Unquoted(s, i) == Cardinality({j \in 1..(i - 1) : s[j] = "\""}) % 2 = 0

\* the pieces of CSV text s between the unquoted occurrences of ch
CsvSplit(s, ch) ==
  LET P == {i \in 1..Len(s) : s[i] = ch /\ Unquoted(s, i)}
      pos(k) == IF k = 0 THEN 0
                ELSE IF k > Cardinality(P) THEN Len(s) + 1
                ELSE CHOOSE p \in P : Cardinality({x \in P : x <= p}) = k
  IN  [k \in 1..(Cardinality(P) + 1) |-> SubSeq(s, pos(k - 1) + 1, pos(k) - 1)]

RECURSIVE Undoubled(_)
\* the text in which each doubled quote mark of t is a single one
Undoubled(t) ==
  IF t = <<>> THEN <<>>
  ELSE IF Len(t) >= 2 /\ t[1] = "\"" /\ t[2] = "\"" THEN <<"\"">> \o Undoubled(SubSeq(t, 3, Len(t)))
  ELSE <<t[1]>> \o Undoubled(Tail(t))

\* every quote mark of t belongs to a doubled one
QuotesDoubled(t) ==
  \A i \in 1..Len(t) :
    t[i] = "\"" =>
      LET first == CHOOSE a \in 1..i : /\ \A j \in a..i : t[j] = "\""
                                       /\ (a = 1 \/ t[a - 1] # "\"")
          end == CHOOSE z \in i..Len(t) : /\ \A j \in i..z : t[j] = "\""
                                          /\ (z = Len(t) \/ t[z + 1] # "\"")
      IN  (end - first + 1) % 2 = 0

\* the text of column c of row r, a null column being empty
FieldText(r, c) ==
  IF c \in {"event_timestamp", "risk_score"} THEN NumToString(r[c])
  ELSE IF c = "success" THEN (IF r[c] THEN <<"t","r","u","e">> ELSE <<"f","a","l","s","e">>)
  ELSE IF r[c] = NULL THEN <<>>
  ELSE r[c]

\* CSV field raw stands for the text v: verbatim when v holds no comma,
\* quote mark or line break, and otherwise wrapped in quote marks with its
\* own quote marks doubled, so that un-escaping gives v back
FieldStandsFor(raw, v) ==
  IF \E j \in 1..Len(v) : v[j] \in {",", "\"", "\n"}
  THEN /\ Len(raw) >= 2 /\ raw[1] = "\"" /\ raw[Len(raw)] = "\""
       /\ QuotesDoubled(SubSeq(raw, 2, Len(raw) - 1))
       /\ Undoubled(SubSeq(raw, 2, Len(raw) - 1)) = v
  ELSE raw = v

\* the response is CSV text: a header record of the ten field names, then
\* one record for each of the rows E, newest first, each field standing
\* for the text of the row's column
CsvOf(E) ==
  /\ response.csv
  /\ LET records == CsvSplit(response.body, "\n")
     IN  /\ Len(records) = 1 + Cardinality(E)
         /\ CsvSplit(records[1], ",") = [i \in 1..Len(exportColumns) |-> exportColumns[i].name]
         /\ \E ord \in OrderBy(E, LAMBDA a, b : a.event_timestamp > b.event_timestamp) :
              \A k \in 1..Len(ord) :
                LET raw == CsvSplit(records[k + 1], ",")
                IN  /\ Len(raw) = Len(exportColumns)
                    /\ \A i \in 1..Len(exportColumns) :
                         FieldStandsFor(raw[i], FieldText(ord[k], exportColumns[i].f))

\* the rows an admitted export selects
Exported == {r \in BeforeExport : exportWhere(r, last.q)}

ExportEvents == {r \in audit_log : r.id \in last.written}

\* row e records the export: who ran it, how many rows it carried and the
\* filters it applied
RecordsExport(e) ==
  /\ e.event_type = <<"A","U","D","I","T","_","E","X","P","O","R","T">>
  /\ e.userid = <<"r","o","o","t","1">>
  /\ e.success
  /\ Contains(e.additional_data,
              <<"\"","e","x","p","o","r","t","e","d","_","r","e","c","o","r","d","s","\"",":">> \o NumToString(Cardinality(Exported)))
  /\ Contains(e.additional_data, <<"\"","f","i","l","t","e","r","s","\"",":","{">>)
  /\ last.q.event_type # UNDEFINED =>
       Contains(e.additional_data, <<"\"","e","v","e","n","t","_","t","y","p","e","\"",":","\"">> \o last.q.event_type \o <<"\"">>)
  /\ last.q.start_date # <<>> =>
       Contains(e.additional_data,
                <<"\"","s","t","a","r","t","_","d","a","t","e","\"",":","\"">> \o NumToString(last.q.start_date[1]) \o <<"\"">>)

\* C17 as stated: every admitted export is recorded as an AUDIT_EXPORT
\* event holding its filters and row count, written after the query so
\* that the export does not contain it.
EveryExportRecorded ==
  (last.op = "export" /\ last.admitted) =>
    /\ \E e \in ExportEvents : ExportEvents = {e} /\ RecordsExport(e)
    /\ Exported \cap ExportEvents = {}

\* C17, what the handler does ensure: an admitted export whose query
\* succeeds and whose audit write succeeds leaves exactly one AUDIT_EXPORT
\* event holding its filters and row count, and the export does not
\* contain that event; when the audit write fails the export is answered
\* all the same and leaves no event; an export whose query fails is
\* answered 500 and leaves no event.
ExportRecordedIfStoreAllows ==
  (last.op = "export" /\ last.admitted) =>
    /\ Exported \cap ExportEvents = {}
    /\ IF last.dbQ = "down" THEN ExportEvents = {} /\ response.status = 500
       ELSE /\ response.status = 200
            /\ response.csv => Len(CsvSplit(response.body, "\n")) = 1 + Cardinality(Exported)
            /\ IF last.dbA = "down" THEN ExportEvents = {}
               ELSE \E e \in ExportEvents : ExportEvents = {e} /\ RecordsExport(e)

\* the fields the normalizer sets: eventData before the risk score is added
Candidate(e) == [c \in DOMAIN e \ {"risk_score"} |-> e[c]]

\* C18: normalizing an event of which only the type is given sets every
\* default (category AUTH, description '<type> event', the current time,
\* the host name, the version, every optional field null, success false),
\* and normalizing the result again gives the same candidate.
NormalizeIdempotent ==
  (last.op \in {"once", "twice"}) =>
    /\ ret.once.event_type = last.event_type
    /\ ret.once.event_category = <<"A","U","T","H">>
    /\ ret.once.event_description = last.event_type \o <<" ","e","v","e","n","t">>
    /\ ret.once.event_timestamp = ret.at
    /\ ret.once.server_name = HOSTNAME
    /\ ret.once.application_version = Or(APP_VERSION, <<"1",".","0",".","0">>)
    /\ \A c \in {"userid", "attempted_userid", "user_roles", "session_id", "error_code",
                 "error_message", "additional_data"} : ret.once[c] = NULL
    /\ ret.once.success = FALSE
    /\ last.op = "twice" => Candidate(ret.twice) = Candidate(ret.once)

\* C18: an event of type LOGOUT was normalized at one hour and its result
\* normalized again sixteen hours later
NormalizedTwice ==
  /\ last.op = "twice"
  /\ last.event_type = EVENT_TYPES.LOGOUT
  /\ now = ret.at + 16
  /\ ret.twice.event_timestamp = ret.at

\* C19 as stated: the source IP recorded for an event written with a
\* request is the first populated of the first entry of the proxy-chain
\* header, the real-IP header and the socket address, so a request with
\* both a proxy-chain header and a socket address is recorded with the
\* proxy-chain entry.
SourceIpProxyFirst ==
  \A r \in audit_log :
    LET req == Writer(r).req
    IN  ~req.null =>
          r.ip_address =
            IF req.x_forwarded_for # UNDEFINED
            THEN LET entry == CHOOSE i \in 1..(Len(req.x_forwarded_for) + 1) :
                                /\ i = Len(req.x_forwarded_for) + 1 \/ req.x_forwarded_for[i] = ","
                                /\ \A j \in 1..(i - 1) : req.x_forwarded_for[j] # ","
                 IN  SubSeq(req.x_forwarded_for, 1, entry - 1)
            ELSE IF req.x_real_ip # UNDEFINED THEN req.x_real_ip
            ELSE req.socket_remoteAddress

\* C20 as stated: a write that succeeds returns the id of the row together
\* with the time the row was inserted, whatever time the event itself
\* carries.
ReturnsInsertionTime ==
  (last.op \in RecorderOps /\ ret.kind = "entry") =>
    \E r \in audit_log :
      /\ r.id = ret.entry.id
      /\ ret.entry.timestamp = r.created_at

(***************************************************************************)
(* C21: round trip through the recorder and the List endpoint              *)
(***************************************************************************)
\* the List endpoint answered with a page
ReadBack == last.op = "list" /\ last.admitted /\ response.status = 200

\* the value of column c the store keeps for the returned object entry:
\* an absent value of the request is stored as NULL
Stored(entry, c) ==
  IF c \in {"ip_address", "user_agent", "request_method", "request_path"}
  THEN ToNull(entry[c]) ELSE entry[c]

\* record rec holds every field in cols of the object the recorder returned
\* for ledger entry l, with the id and the timestamp assigned to it
ReadsAs(rec, l, cols) ==
  /\ "id" \in DOMAIN rec /\ rec.id = l.id
  /\ "event_timestamp" \in DOMAIN rec /\ rec.event_timestamp = l.entry.timestamp
  /\ \A c \in cols \ {"id", "timestamp"} :
        c \in DOMAIN rec /\ rec[c] = Stored(l.entry, c)

\* C21 as claimed: a List request for the exact id of an event written
\* through the recorder returns exactly one record, and its fields, the
\* context map additional_data among them, equal the written candidate plus
\* the assigned id and timestamp.
RoundTripById ==
  ReadBack =>
    \A l \in ledger :
      NumToString(l.id) = last.q.id =>
        /\ Len(response.data) = 1
        /\ ReadsAs(response.data[1], l, DOMAIN l.entry)

\* C21 as amended: the List endpoint has no id filter.  When its page holds
\* every row, each event written through the recorder is read back as
\* exactly one record with its id; the record has the columns of List,
\* which leave out additional_data, and each equals the written candidate
\* (absent request values read as NULL) plus the assigned id and timestamp.
RoundTripByList ==
  (ReadBack /\ response.pagination.total_pages <= 1) =>
    \A l \in ledger :
      /\ Cardinality({i \in 1..Len(response.data) : response.data[i].id = l.id}) = 1
      /\ \A i \in 1..Len(response.data) :
            response.data[i].id = l.id =>
              /\ ReadsAs(response.data[i], l, DOMAIN l.entry \cap listColumns)
              /\ DOMAIN response.data[i] = listColumns
              /\ "additional_data" \notin DOMAIN response.data[i]

\* C21 witness: two events were written, one with a context map and one from
\* a request without headers, and the List endpoint was asked for id 1
RoundTripRead ==
  /\ ReadBack /\ last.q.id = <<"1">>
  /\ Len(response.data) = 2
  /\ \E l \in ledger : l.entry.additional_data # NULL
  /\ \E l \in ledger : l.entry.user_agent = UNDEFINED

(***************************************************************************)
(* C22: the unusual-hours rule                                             *)
(***************************************************************************)
\* C22: an event scored at a local time before 06:00 or after 22:00 (22:30,
\* say) has the 5 points of the unusual-hours rule on top of the points of
\* the other rules, and an event scored from 06:00 to 22:00 does not.
UnusualHoursOutsideBusinessHours ==
  last.op = "score" =>
    LET e == last.event
        minuteOfDay == 60 * getHours(now) + last.minute
        others == 10 * Bit(e.event_type = <<"L","O","G","I","N","_","F","A","I","L","E","D">>)
                  + 5 * Bit(e.user_roles # NULL /\ includes(e.user_roles, <<"S","M","S","_","S","U","P","E","R","A","D","M">>))
                  + 10 * Bit(includes(toLowerCase(e.user_agent), <<"b","o","t">>))
    IN  ret.score = others + 5 * Bit(minuteOfDay < 6 * 60 \/ minuteOfDay > 22 * 60)

(***************************************************************************)
(* C23: access to audit data is logged                                     *)
(***************************************************************************)
\* the admin operations that read or export audit rows
ReadOps == {"list", "summary", "user", "export"}

\* C23: every admitted request that read or exported audit rows left an
\* audit event written at the time of the request that names the caller.
AccessLogged ==
  [][ (last'.op \in ReadOps /\ last'.admitted /\ response'.status = 200) =>
        \E r \in audit_log' \ audit_log : r.userid # NULL /\ r.created_at = now' ]_vars

\* C23, what the handlers do ensure: list, summary and per-user history
\* write no audit event at all
ReadsLeaveNoEvent ==
  [][ last'.op \in {"list", "summary", "user"} => audit_log' = audit_log ]_vars

(***************************************************************************)
(* C24: every client taken from the pool is released exactly once          *)
(***************************************************************************)
\* the student-route handlers that take a client from the pool
PoolOps == {"add", "update", "delete", "finance", "settle"}

\* C24: every student-route handler that took a client from the pool called
\* client.release() exactly once on the path it took, so that no client
\* stays checked out after the handler answered.
ReleasedExactlyOnce ==
  /\ last.op \in PoolOps => last.releases = 1
  /\ pool = 0

\* C24, the two halves apart: no handler releases its client twice
NeverReleasedTwice == last.op \in PoolOps => last.releases <= 1

\* C24, the two halves apart: the pool always has a client to give
PoolNeverExhausted == pool < PoolMax

(***************************************************************************)
(* C25: a bulk import is all or nothing                                    *)
(***************************************************************************)
\* the bulk request answered
BulkAnswered == last.op = "bulk" /\ response.status \in {200, 500}

\* C25: a bulk import that answered 500, because the statement of a slice
\* failed, left no row of its file in the table, and one that answered 200
\* left a row for every record of its file, also while another request
\* holds a connection of the pool.
BulkAllOrNothing ==
  BulkAnswered =>
    LET ids == {last.records[i].stuid : i \in 1..Len(last.records)}
        kept == {r.stuid : r \in student_master} \cap ids
    IN  IF response.status = 500 THEN kept = {} ELSE kept = ids

(***************************************************************************)
(* C26                                                                     *)
(***************************************************************************)
\* the balance the two requests start from
BalanceBefore ==
  RowOf(addStudent(Tables({}, {}, {}), <<"S","T","U","_","0","0","1">>,
                   StudentBody(<<"A","s","h","a"," ","R","a","o">>, <<"D","i","p","l","o","m","a"," ","i","n"," ","C","i","v","i","l">>, JUndef), 0).tables.student_master,
        <<"S","T","U","_","0","0","1">>).balance

BothCommitted == \A r \in Requests : inflight[r].pc = "done" /\ inflight[r].status = 200

\* C26: when two balance adjustments for the same student have both
\* committed, the final balance is the result of applying the two
\* adjustments one after the other in some order.
NoLostAdjustment ==
  BothCommitted =>
    LET b == RowOf(student_master, <<"S","T","U","_","0","0","1">>).balance
        d1 == inflight[1].delta
        d2 == inflight[2].delta
    IN  \/ b = nextBalance(nextBalance(BalanceBefore, d1), d2)
        \/ b = nextBalance(nextBalance(BalanceBefore, d2), d1)

(***************************************************************************)
(* C27                                                                     *)
(***************************************************************************)
\* the request of the step asks for a balance below 0 for a student whose
\* balance is old: a manual set to a negative value, or a decrease (adjust
\* minus, apply-payment, settle-semester) by more than old
AsksBelowZero(request, old) ==
  CASE request.op = "PUT" /\ request.handler = "PUT /student/balance" ->
         ~Number(request.body.balance).nan /\ Number(request.body.balance).n < 0
    [] request.op = "PUT" /\ request.handler \in {"PUT /adjust/balance", "PUT /apply-payment"} ->
         /\ request.handler = "PUT /adjust/balance" => request.body.op # <<"p","l","u","s">>
         /\ ~Number(request.body.amount).nan
         /\ old - Number(request.body.amount).n < 0
    [] request.op = "settle" ->
         request.body.amount.t = "num" /\ old - request.body.amount.n < 0
    [] OTHER -> FALSE

PaymentRequest ==
  /\ last.op = "PUT"
  /\ last.path \in {<<<<"a","p","p","l","y","-","p","a","y","m","e","n","t">>>>, <<<<"r","e","v","e","r","t","-","p","a","y","m","e","n","t">>>>}
  /\ HasRow(student_master, last.body.stuid)
  /\ ~Number(last.body.amount).nan /\ Number(last.body.amount).n > 0
  /\ last.failAt = 0

\* C29: a PUT to /apply-payment (/revert-payment) with a valid student id
\* and a positive amount is handled by the payment handler: the balance is
\* decreased (increased) by the amount, floored at 0, and the request reads
\* and updates no invoice row.
PaymentHandled ==
  PaymentRequest =>
    /\ last.handler = IF last.path = <<<<"a","p","p","l","y","-","p","a","y","m","e","n","t">>>> THEN "PUT /apply-payment"
                      ELSE "PUT /revert-payment"
    /\ response.status = 200
    /\ RowOf(student_master, last.body.stuid).balance = response.json.balance
    /\ response.json.balance = nextBalance(response.json.previous_balance, response.json.delta)
    /\ response.json.delta = (IF last.path = <<<<"a","p","p","l","y","-","p","a","y","m","e","n","t">>>> THEN -1 ELSE 1)
                               * Number(last.body.amount).n
    /\ "cms_stu_fee_invoice" \notin last.queried

(***************************************************************************)
(* C28                                                                     *)
(***************************************************************************)
\* the amount the claim gives a student's mirror: that of the student's most
\* recently written remaining scholarship, 0 when there is none or it is null
MirrorOf(stuid) ==
  LET mine == latestOf(cms_stu_scholarship, stuid)
  IN  IF mine = <<>> \/ mine[1].cms_stu_schol_amt.t = "null"
      THEN SCHOLARSHIP_FALLBACK_AMOUNT
      ELSE mine[1].cms_stu_schol_amt.n

\* C28: after any sequence of scholarship create, update (also one that
\* moves a scholarship to another student) and delete, every student's
\* scholrshipfees is the amount of the student's most recently written
\* remaining scholarship, or 0 when there is none or its amount is null.
ScholarshipMirrored ==
  \A s \in student_master : s.scholrshipfees = MirrorOf(s.stuid)

====
